---------------------------- MODULE Spec2Model ----------------------------
(***************************************************************************)
(* Model of the SATIM payment module: the signature engine                 *)
(* (SignatureValidator), the callback processor (CallbackHandler), the     *)
(* gateway client (SatimAPI), the payment orchestrator (PaymentHandler)    *)
(* and the status and identifier helpers.                                  *)
(*                                                                         *)
(* Strings are sequences of atoms.  An atom stands for a fixed piece of    *)
(* text ("amount", "&", "5"); the atoms are prefix-free, so two sequences  *)
(* are equal exactly when the texts they stand for are equal, and the      *)
(* order of two sequences is the order of their texts.                     *)
(***************************************************************************)
EXTENDS Integers, Sequences, FiniteSets, TLC

VARIABLES
    \* ---- SignatureValidator exercised on its own
    sgPc,            \* "idle" | "signed" | "verified"
    sgPayload,       \* payload given to generateSignature
    sgSignature,     \* result of the first generateSignature call
    sgSignature2,    \* result of a second call on the same payload
    sgVerPayload,    \* payload given to verifySignature
    sgReceived,      \* signature given to verifySignature
    sgIsValid,       \* result of verifySignature
    \* ---- CallbackHandler
    secretKey,           \* key the handler's SignatureValidator was built with
    onPaymentSuccess,    \* TRUE when a success handler is registered
    onPaymentFailed,     \* TRUE when a failure handler is registered
    onPaymentCancelled,  \* TRUE when a cancellation handler is registered
    cbPc,            \* "idle" | "received" | "awaiting" | "done"
    cbReq,           \* the request being handled
    cbVerified,      \* TRUE once verifyCallback returned for this request
    cbCalls,         \* outcome handlers invoked for this request, in order
    cbRes,           \* acknowledgements sent for this request, in order
    cbHandlerErr,    \* what the invoked outcome handler threw, if it did
    cbPromise,       \* handle's promise: "pending" | "resolved" | "rejected"
    \* ---- SatimAPI
    apiPc,           \* "idle" | "http" | "done"
    apiCall,         \* the operation in progress and its request
    apiHttp,         \* HTTP requests issued for this call, in order
    apiResp,         \* the HTTP response this call received, if any
    apiFailure,      \* what the HTTP client threw for this call, if it did
    apiLog,          \* records this call passed to the logger, in order
    apiOutcome,      \* how the call ended: returned data or thrown error
    \* ---- PaymentHandler: createPayment, verifyPayment, refundPayment
    phPc,            \* "idle" | "api" | "done"
    phCall,          \* the operation in progress and its arguments
    phOutcome,       \* how the operation ended: returned value or thrown error
    \* ---- PaymentHandler.waitForPayment
    wpPc,            \* "idle" | "check" | "poll" | "sleep" | "done"
    wpNow,           \* Date.now()
    wpCall,          \* startTime, timeoutMs and intervalMs of the call
    wpPolls,         \* outcomes of the verifyPayment calls made, in order
    wpSleeps,        \* number of sleeps started
    wpOutcome,       \* how waitForPayment ended
    \* ---- pure helpers applied to an input
    fnPc,            \* "idle" | "done"
    fnCall,          \* the helper applied and its input
    fnResult,        \* what it returned
    \* ---- concurrent invocations of CallbackHandler.handle
    ccInv,           \* each invocation: its position, request and response
    ccDispatch,      \* outcome-handler calls made, in order
    \* ---- retry
    rtPc,            \* "idle" | "calling" | "sleeping" | "done"
    rtCall,          \* maxRetries and delayMs of the call
    rtAttempts,      \* outcomes of the calls of fn made, in order
    rtSleeps,        \* delays slept, in order
    rtOutcome        \* how retry ended

sigVars == <<sgPc, sgPayload, sgSignature, sgSignature2, sgVerPayload,
             sgReceived, sgIsValid>>
cbVars == <<secretKey, onPaymentSuccess, onPaymentFailed, onPaymentCancelled,
            cbPc, cbReq, cbVerified, cbCalls, cbRes, cbHandlerErr, cbPromise>>
apiVars ==
    <<apiPc, apiCall, apiHttp, apiResp, apiFailure, apiLog, apiOutcome>>
payVars == <<phPc, phCall, phOutcome>>
waitVars == <<wpPc, wpNow, wpCall, wpPolls, wpSleeps, wpOutcome>>
fnVars == <<fnPc, fnCall, fnResult>>
concVars == <<ccInv, ccDispatch>>
retryVars == <<rtPc, rtCall, rtAttempts, rtSleeps, rtOutcome>>
vars ==
    <<sigVars, cbVars, apiVars, payVars, waitVars, fnVars, concVars,
      retryVars>>

-----------------------------------------------------------------------------
(* Strings and JavaScript values *)

\* The atoms in the order of the texts they stand for (UTF-16 code units).
Alphabet ==
    << "&", "0", "1", "2", "3", "4", "5", "6", "7", "8", "9", "=",
       "BOGUS", "CANCELLED", "DECLINED", "DEPOSITED", "DZD", "O1", "P1",
       "PENDING", "REVERSED",
       "amount", "cancelled", "currency", "failed", "orderId", "paymentId",
       "pending", "status", "success", "undefined", "unknown",
       "x", "y", "z" >>

CharCode(a) == CHOOSE i \in 1..Len(Alphabet) : Alphabet[i] = a

\* a < b for strings, as Array.prototype.sort compares them.
RECURSIVE StrLess(_, _)
StrLess(a, b) ==
    IF b = <<>> THEN FALSE
    ELSE IF a = <<>> THEN TRUE
    ELSE IF Head(a) = Head(b) THEN StrLess(Tail(a), Tail(b))
    ELSE CharCode(Head(a)) < CharCode(Head(b))

\* A JavaScript value: a string, a number (held by its decimal text) or
\* undefined.
Str(s) == [t |-> "str", s |-> s]
Num(s) == [t |-> "num", s |-> s]
Undefined == [t |-> "undef", s |-> <<"undefined">>]

\* `${v}`: the text of a value inside a template literal.
JsString(v) == v.s

\* !!v
Truthy(v) ==
    CASE v.t = "undef"  -> FALSE
      [] v.t = "str"    -> v.s # <<>>
      [] v.t = "num"    -> v.s # <<"0">>
      [] v.t = "object" -> TRUE

\* An object is the sequence of its <<key, value>> entries in insertion
\* order; its keys are distinct.
ObjectKeys(obj) == [i \in 1..Len(obj) |-> obj[i][1]]

HasKey(obj, k) == \E i \in 1..Len(obj) : obj[i][1] = k

Get(obj, k) ==
    IF HasKey(obj, k)
    THEN obj[CHOOSE i \in 1..Len(obj) : obj[i][1] = k][2]
    ELSE Undefined

\* Two objects with the same keys and the same value under each key.
SameMapping(p, q) ==
    /\ \A i \in 1..Len(p) : HasKey(q, p[i][1]) /\ Get(q, p[i][1]) = p[i][2]
    /\ \A i \in 1..Len(q) : HasKey(p, q[i][1])

-----------------------------------------------------------------------------
(* SignatureValidator *)

RECURSIVE Insert(_, _)
Insert(k, sorted) ==
    IF sorted = <<>> THEN <<k>>
    ELSE IF StrLess(k, Head(sorted)) THEN <<k>> \o sorted
    ELSE <<Head(sorted)>> \o Insert(k, Tail(sorted))

RECURSIVE Sort(_)
Sort(keys) ==
    IF keys = <<>> THEN <<>> ELSE Insert(Head(keys), Sort(Tail(keys)))

RECURSIVE Join(_, _)
Join(parts, sep) ==
    IF parts = <<>> THEN <<>>
    ELSE IF Len(parts) = 1 THEN Head(parts)
    ELSE Head(parts) \o sep \o Join(Tail(parts), sep)

\* A signature string.  HMAC-SHA256 is collision-free on its key and its
\* input: the digest is named by them.  Its hexadecimal text has 64
\* characters, in lower case out of digest('hex') and in upper case after
\* toUpperCase.  Any other text is named by itself.
HexLen == 64
Mac(key, data, upper) ==
    [t |-> "mac", key |-> key, data |-> data, upper |-> upper,
     len |-> HexLen, txt |-> ""]
Text(txt, len) ==
    [t |-> "txt", key |-> "", data |-> <<>>, upper |-> FALSE,
     len |-> len, txt |-> txt]
NoSignature ==
    [t |-> "undef", key |-> "", data |-> <<>>, upper |-> FALSE,
     len |-> 0, txt |-> ""]

ToUpperCase(sig) == IF sig.t = "mac" THEN [sig EXCEPT !.upper = TRUE] ELSE sig

DataString(payload) ==
    LET sortedKeys == Sort(ObjectKeys(payload))
        pair(key) == key \o <<"=">> \o JsString(Get(payload, key))
    IN  Join([i \in 1..Len(sortedKeys) |-> pair(sortedKeys[i])], <<"&">>)

\* The data string without the sort of the keys.
DataStringUnsorted(payload) ==
    LET keys == ObjectKeys(payload)
        pair(key) == key \o <<"=">> \o JsString(Get(payload, key))
    IN  Join([i \in 1..Len(keys) |-> pair(keys[i])], <<"&">>)

generateSignatureUnsorted(key, payload) ==
    ToUpperCase(Mac(key, DataStringUnsorted(payload), FALSE))

generateSignature(key, payload) ==
    ToUpperCase(Mac(key, DataString(payload), FALSE))

\* secureCompare reduced to its length check.
secureCompareLengthOnly(a, b) == a.len = b.len

\* secureCompare with the length check inverted.
secureCompareNever(a, b) == a.len # b.len

secureCompare(a, b) ==
    IF a.len # b.len THEN FALSE ELSE a = b

verifySignature(key, payload, receivedSignature) ==
    LET expectedSignature == generateSignature(key, payload)
    IN  secureCompare(expectedSignature, receivedSignature)

-----------------------------------------------------------------------------
(* Bounds and input sets *)

\* Largest number of fields in a payload handed to the signature engine.
MaxFields == 2

SharedSecret == "shared-gateway-secret"

SigKeys == { <<"x">>, <<"y">>, <<"z">> }

SigValues ==
    { Str(<<"1">>), Num(<<"1">>), Str(<<"2">>),
      Str(<<"1", "&", "y", "=", "2">>) }

\* Every object of at most n entries over the given keys and values, in
\* every insertion order.
RECURSIVE Objects(_, _, _)
Objects(keys, values, n) ==
    IF n = 0 THEN { <<>> }
    ELSE LET prev == Objects(keys, values, n - 1)
             full == { o \in prev : Len(o) = n - 1 }
             ext  == { Append(o, <<k, v>>) :
                         o \in full, k \in keys, v \in values }
         IN  prev \cup { e \in ext : \A i \in 1..(n - 1) : e[i][1] # e[n][1] }

SigPayloads == Objects(SigKeys, SigValues, MaxFields)

\* Signatures a caller may present for payload q once s has been issued.
ReceivedSignatures(key, q, s) ==
    { s,
      generateSignature(key, q),
      Mac(key, DataString(q), FALSE),
      Mac("attacker-key", DataString(q), TRUE),
      Text("INVALID_SIGNATURE", 17),
      Text("0000000000000000000000000000000000000000000000000000000000000000",
           HexLen) }

-----------------------------------------------------------------------------
(* Idle values of each component *)

SigIdle ==
    /\ sgPc = "idle"
    /\ sgPayload = <<>>
    /\ sgSignature = NoSignature
    /\ sgSignature2 = NoSignature
    /\ sgVerPayload = <<>>
    /\ sgReceived = NoSignature
    /\ sgIsValid = FALSE

NoDetails == [received |-> NoSignature, payload |-> <<>>]
NoError == [name |-> "none", message |-> <<>>, details |-> NoDetails]

NoRequest == [body |-> "none", fields |-> <<>>, signature |-> NoSignature,
              header |-> NoSignature]

CbIdle ==
    /\ onPaymentSuccess = FALSE
    /\ onPaymentFailed = FALSE
    /\ onPaymentCancelled = FALSE
    /\ cbPc = "idle"
    /\ cbReq = NoRequest
    /\ cbVerified = FALSE
    /\ cbCalls = <<>>
    /\ cbRes = <<>>
    /\ cbHandlerErr = NoError
    /\ cbPromise = "pending"

NoCall == [op |-> "none", amount |-> 0, orderNumber |-> Undefined]
NoApiError == [name |-> "none", message |-> <<>>, code |-> Undefined,
               details |-> <<>>]
NoData == [has |-> FALSE, errorCode |-> Undefined, ErrorCode |-> Undefined,
           errorMessage |-> Undefined, ErrorMessage |-> Undefined,
           orderId |-> Undefined, formUrl |-> Undefined,
           OrderStatus |-> Undefined, OrderNumber |-> Undefined]
NoResponse == [got |-> FALSE, data |-> NoData]
NoFailure == [name |-> "none", code |-> "", hasResponse |-> FALSE,
              data |-> NoData, hasRequest |-> FALSE, message |-> <<>>]
NoOutcome == [kind |-> "none", data |-> NoData, error |-> NoApiError]

ApiIdle ==
    /\ apiPc = "idle"
    /\ apiCall = NoCall
    /\ apiHttp = <<>>
    /\ apiResp = NoResponse
    /\ apiFailure = NoFailure
    /\ apiLog = <<>>
    /\ apiOutcome = NoOutcome

NoOrder == [orderId |-> Undefined, hasAmount |-> FALSE, amount |-> 0]
NoPayCall == [op |-> "none", order |-> NoOrder, orderNumber |-> Undefined,
              paymentId |-> Undefined, amount |-> 0]
NoValue == [success |-> FALSE, status |-> Undefined, paymentId |-> Undefined,
            paymentUrl |-> Undefined, orderId |-> Undefined, amount |-> 0]
NoPayOutcome == [kind |-> "none", value |-> NoValue, error |-> NoApiError]

PayIdle ==
    /\ phPc = "idle"
    /\ phCall = NoPayCall
    /\ phOutcome = NoPayOutcome

NoWaitCall == [startTime |-> 0, timeoutMs |-> 0, intervalMs |-> 0]

WaitIdle ==
    /\ wpPc = "idle"
    /\ wpNow = 0
    /\ wpCall = NoWaitCall
    /\ wpPolls = <<>>
    /\ wpSleeps = 0
    /\ wpOutcome = NoPayOutcome

NoFnCall == [fn |-> "none", arg |-> Undefined, prefix |-> <<>>,
             timestamp |-> 0, random |-> 0]

FnIdle ==
    /\ fnPc = "idle"
    /\ fnCall = NoFnCall
    /\ fnResult = Undefined

\* At most MaxInvocations invocations of handle are in progress at a time.
MaxInvocations == 2

\* The locals of one invocation of handle: req, what res was sent, and what
\* the awaited outcome handler threw.
NoInvocation ==
    [pc |-> "idle", req |-> NoRequest, res |-> <<>>, herr |-> NoError]

ConcIdle ==
    /\ ccInv = [i \in 1..MaxInvocations |-> NoInvocation]
    /\ ccDispatch = <<>>

NoRetryCall == [maxRetries |-> 0, delayMs |-> 0]
NoAttempt == [kind |-> "none", v |-> ""]

RetryIdle ==
    /\ rtPc = "idle"
    /\ rtCall = NoRetryCall
    /\ rtAttempts = <<>>
    /\ rtSleeps = <<>>
    /\ rtOutcome = NoAttempt

-----------------------------------------------------------------------------
(* CallbackHandler *)

\* PaymentStatus
PENDING == Str(<<"pending">>)
SUCCESS == Str(<<"success">>)
FAILED == Str(<<"failed">>)
CANCELLED == Str(<<"cancelled">>)
REFUNDED == Str(<<"refunded">>)
PaymentStatus ==
    { PENDING, SUCCESS, FAILED, CANCELLED, Str(<<"timeout">>), REFUNDED,
      Str(<<"partial_refund">>) }

STATUS_MAPPING ==
    (<<"0">> :> SUCCESS) @@ (<<"1">> :> SUCCESS) @@ (<<"2">> :> SUCCESS) @@
    (<<"3">> :> FAILED) @@ (<<"4">> :> PENDING) @@ (<<"5">> :> FAILED) @@
    (<<"6">> :> CANCELLED) @@
    (<<"DEPOSITED">> :> SUCCESS) @@ (<<"REVERSED">> :> SUCCESS) @@
    (<<"DECLINED">> :> FAILED) @@ (<<"CANCELLED">> :> CANCELLED) @@
    (<<"PENDING">> :> PENDING)

\* The members every object literal inherits from Object.prototype.
PrototypeKeys ==
    { <<"constructor">>, <<"toString">>, <<"toLocaleString">>,
      <<"valueOf">>, <<"hasOwnProperty">>, <<"isPrototypeOf">>,
      <<"propertyIsEnumerable">>, <<"__proto__">>, <<"__defineGetter__">>,
      <<"__defineSetter__">>, <<"__lookupGetter__">>,
      <<"__lookupSetter__">> }
Inherited(key) == [t |-> "object", s |-> <<"Object.prototype.">> \o key]

\* STATUS_MAPPING[satimStatus]: the property named by the text of the
\* value, own or inherited.
Lookup(table, v) ==
    IF JsString(v) \in DOMAIN table THEN table[JsString(v)]
    ELSE IF JsString(v) \in PrototypeKeys THEN Inherited(JsString(v))
    ELSE Undefined

\* a || b
Or(a, b) == IF Truthy(a) THEN a ELSE b

mapStatus(satimStatus) == Or(Lookup(STATUS_MAPPING, satimStatus), FAILED)

\* An error object; details is the SatimError field of that name.
Error(name, message) ==
    [name |-> name, message |-> message, details |-> NoDetails]
SignatureError(message, details) ==
    [name |-> "SignatureError", message |-> message, details |-> details]

NoThrow == [threw |-> FALSE, error |-> NoError]
Throw(e) == [threw |-> TRUE, error |-> e]

requiredFields ==
    << <<"paymentId">>, <<"orderId">>, <<"status">>, <<"amount">>,
       <<"currency">> >>

\* The loop of validateCallbackData from the i-th required field on.
RECURSIVE validateFrom(_, _)
validateFrom(data, i) ==
    IF i > Len(requiredFields) THEN NoThrow
    ELSE IF ~Truthy(Get(data, requiredFields[i]))
         THEN Throw(Error("Error",
                          <<"Missing required field: ">> \o requiredFields[i]))
         ELSE validateFrom(data, i + 1)

\* req.body may be undefined: data[field] is then a TypeError.
validateCallbackData(req) ==
    IF req.body = "undefined"
    THEN Throw(Error("TypeError",
                     <<"Cannot read properties of undefined">>))
    ELSE validateFrom(req.fields, 1)

\* !!signature for a signature string
SigTruthy(sig) == sig.t # "undef" /\ sig.len > 0

\* callbackData.signature || req.headers['x-satim-signature']
SignatureOf(req) ==
    IF SigTruthy(req.signature) THEN req.signature ELSE req.header

verifyCallback(key, payload, signature) ==
    IF ~SigTruthy(signature)
    THEN Throw(SignatureError(<<"Missing signature in callback">>, NoDetails))
    ELSE IF ~verifySignature(key, payload, signature)
         THEN Throw(SignatureError(<<"Invalid signature">>,
                        [received |-> signature,
                         payload |-> ObjectKeys(payload)]))
         ELSE NoThrow

\* The handler slot processCallback's switch selects for the status it is
\* given; "none" is the default branch.
processCallback(status) ==
    LET mapped == mapStatus(status)
    IN  CASE mapped = SUCCESS   -> "success"
          [] mapped = FAILED    -> "failed"
          [] mapped = CANCELLED -> "cancelled"
          [] OTHER              -> "none"

\* handle up to the point where it awaits an outcome handler: the error it
\* caught, or the handler slot selected.
handleSteps(key, req) ==
    LET validation == validateCallbackData(req)
        signature == SignatureOf(req)
        verification == verifyCallback(key, req.fields, signature)
        status == mapStatus(Get(req.fields, <<"status">>))
    IN  IF validation.threw
        THEN [error |-> validation.error, verified |-> FALSE, slot |-> "none",
              status |-> Undefined]
        ELSE IF ~SigTruthy(signature)
        THEN [error |-> SignatureError(<<"Missing signature">>, NoDetails),
              verified |-> FALSE, slot |-> "none", status |-> Undefined]
        ELSE IF verification.threw
        THEN [error |-> verification.error, verified |-> FALSE,
              slot |-> "none", status |-> Undefined]
        ELSE [error |-> NoError, verified |-> TRUE,
              slot |-> processCallback(status), status |-> status]

SuccessResponse(req) ==
    [status |-> 200, success |-> TRUE,
     message |-> <<"Callback processed successfully">>,
     paymentId |-> Get(req.fields, <<"paymentId">>)]

\* The error response without the 'unknown' default.
ErrorResponseNoDefault(error, req) ==
    [status |-> 400, success |-> FALSE,
     message |-> IF error.name = "NotAnError"
                 THEN <<"Unknown error">> ELSE error.message,
     paymentId |-> Get(req.fields, <<"paymentId">>)]

ErrorResponse(error, req) ==
    [status |-> 400, success |-> FALSE,
     message |-> IF error.name = "NotAnError"
                 THEN <<"Unknown error">> ELSE error.message,
     paymentId |-> Or(Get(req.fields, <<"paymentId">>), Str(<<"unknown">>))]

Registered(slot) ==
    CASE slot = "success"   -> onPaymentSuccess
      [] slot = "failed"    -> onPaymentFailed
      [] slot = "cancelled" -> onPaymentCancelled
      [] OTHER              -> FALSE

\* A switch that calls every registered handler, whatever the case.
handlerCallsEveryRegistered(slot) ==
    SelectSeq(<<"success", "failed", "cancelled">>, Registered)

\* The handler calls of processCallback's switch for the case selected:
\* each case awaits its own handler, if registered, and breaks.
handlerCalls(slot) == IF Registered(slot) THEN <<slot>> ELSE <<>>

-----------------------------------------------------------------------------
(* SatimAPI *)

MIN_AMOUNT == 5000

\* SATIM_ERROR_CODES
INVALID_PARAMETER == Str(<<"5">>)
SYSTEM_ERROR == Str(<<"7">>)
TIMEOUT == Str(<<"TIMEOUT">>)
NETWORK_ERROR == Str(<<"NETWORK_ERROR">>)

\* The keys of ERROR_MESSAGES and REFUND_ERROR_MESSAGES; the message of a
\* key is named by its table and key.
ERROR_MESSAGES ==
    [code \in { <<"0">>, <<"1">>, <<"3">>, <<"4">>, <<"5">>, <<"7">>,
                <<"1", "4">> } |-> Str(<<"ERROR_MESSAGES">> \o code)]

REFUND_ERROR_MESSAGES ==
    [code \in { <<"0">>, <<"5">>, <<"6">>, <<"7">> } |->
        Str(<<"REFUND_ERROR_MESSAGES">> \o code)]

ACKNOWLEDGE_ERROR_MESSAGES ==
    [code \in { <<"0">>, <<"2">>, <<"5">>, <<"6">>, <<"7">> } |->
        Str(<<"ACKNOWLEDGE_ERROR_MESSAGES">> \o code)]

Digits == << "0", "1", "2", "3", "4", "5", "6", "7", "8", "9" >>

\* Number.prototype.toString for a non-negative integer.
RECURSIVE ToDecimal(_)
ToDecimal(n) ==
    IF n < 10 THEN << Digits[n + 1] >>
    ELSE ToDecimal(n \div 10) \o << Digits[(n % 10) + 1] >>

\* amount * 100 rendered, as a scaled refund would send it.
ToDecimalScaled(n) == ToDecimal(n * 100)

\* The number a decimal text stands for, as the gateway reads it.
RECURSIVE ParseDecimal(_)
ParseDecimal(s) ==
    IF s = <<>> THEN 0
    ELSE 10 * ParseDecimal(SubSeq(s, 1, Len(s) - 1))
         + (CHOOSE d \in 0..9 : Digits[d + 1] = s[Len(s)])

\* An error a SatimAPI operation ends with.
SatimError(message, code) ==
    [name |-> "SatimError", message |-> message, code |-> code,
     details |-> <<>>]
TimeoutError(message, details) ==
    [name |-> "TimeoutError", message |-> message, code |-> TIMEOUT,
     details |-> details]
NetworkError(message, details) ==
    [name |-> "NetworkError", message |-> message, code |-> NETWORK_ERROR,
     details |-> details]

\* What the try block of an operation can throw besides a SatimError: an
\* error of the HTTP client, or any other exception.
AxiosError(code, hasResponse, data, hasRequest) ==
    [name |-> "AxiosError", code |-> code, hasResponse |-> hasResponse,
     data |-> data, hasRequest |-> hasRequest,
     message |-> <<"axios: ", code>>]
OtherError(message) ==
    [name |-> "Error", code |-> "", hasResponse |-> FALSE, data |-> NoData,
     hasRequest |-> FALSE, message |-> message]

\* handleError without the branch for a failure that carries a response.
handleErrorNoResponseBranch(error, operation) ==
    IF error.name = "AxiosError" /\ error.code = "ECONNABORTED"
    THEN TimeoutError(<<"Request timeout">>, <<"operation", operation>>)
    ELSE IF error.name = "AxiosError" /\ error.hasRequest
    THEN NetworkError(<<"No response from SATIM server">>,
                      <<"operation", operation>>)
    ELSE IF error.name \in {"SatimError", "TimeoutError", "NetworkError"}
    THEN error
    ELSE SatimError(error.message, SYSTEM_ERROR)

\* handleError: the error the operation throws for what its try block threw.
handleError(error, operation) ==
    IF error.name = "AxiosError" /\ error.code = "ECONNABORTED"
    THEN TimeoutError(<<"Request timeout">>, <<"operation", operation>>)
    ELSE IF error.name = "AxiosError" /\ error.hasResponse
    THEN SatimError(
             JsString(Or(Or(error.data.errorMessage, error.data.ErrorMessage),
                         Str(<<"Unknown server error">>))),
             Or(Or(error.data.errorCode, error.data.ErrorCode), SYSTEM_ERROR))
    ELSE IF error.name = "AxiosError" /\ error.hasRequest
    THEN NetworkError(<<"No response from SATIM server">>,
                      <<"operation", operation>>)
    ELSE IF error.name \in {"SatimError", "TimeoutError", "NetworkError"}
    THEN error
    ELSE SatimError(error.message, SYSTEM_ERROR)

Returned(data) == [kind |-> "return", data |-> data, error |-> NoApiError]
Thrown(error) == [kind |-> "throw", data |-> NoData, error |-> error]

\* The amount checks of registerPayment without the multiple-of-100 check.
registerValidateMinimumOnly(amount) ==
    IF amount < MIN_AMOUNT
    THEN SatimError(<<"Amount must be at least 5000 centimes (50 DA)">>,
                    INVALID_PARAMETER)
    ELSE NoApiError

\* The amount checks of registerPayment: the error thrown, or NoError.
registerValidate(amount) ==
    IF amount < MIN_AMOUNT
    THEN SatimError(<<"Amount must be at least 5000 centimes (50 DA)">>,
                    INVALID_PARAMETER)
    ELSE IF amount % 100 # 0
    THEN SatimError(<<"Amount must be a multiple of 100 centimes">>,
                    INVALID_PARAMETER)
    ELSE NoApiError

\* The amount checks of refundPayment.
refundValidate(amount) ==
    IF amount < 100
    THEN SatimError(
             <<"Refund amount must be at least 100 centimes (1.00 DZD)">>,
             INVALID_PARAMETER)
    ELSE IF amount % 100 # 0
    THEN SatimError(<<"Refund amount must be a multiple of 100 centimes">>,
                    INVALID_PARAMETER)
    ELSE NoApiError

\* The request each operation issues.
registerRequest(amount, orderNumber) ==
    [method |-> "POST", endpoint |-> "/register.do",
     amount |-> ToDecimal(amount), orderNumber |-> orderNumber]

verifyRequest(mdOrder) ==
    [method |-> "GET", endpoint |-> "/public/acknowledgeTransaction.do",
     mdOrder |-> mdOrder]

\* The refund request with the amount multiplied by 100.
refundRequestScaled(amount) ==
    [method |-> "GET", endpoint |-> "/refund.do",
     amount |-> ToDecimalScaled(amount)]

refundRequest(amount) ==
    [method |-> "GET", endpoint |-> "/refund.do",
     amount |-> ToDecimal(amount)]

\* registerPayment after the response, without the check of orderId and
\* formUrl.
registerResponseCodeOnly(data) ==
    IF ~data.has
    THEN Thrown(handleError(OtherError(<<"Cannot read properties">>),
                            "registerPayment"))
    ELSE IF JsString(data.errorCode) # <<"0">>
    THEN Thrown(handleError(
             SatimError(<<"Payment registration failed: ">> \o
                        JsString(Or(Or(Lookup(ERROR_MESSAGES, data.errorCode),
                                       data.errorMessage),
                                    Str(<<"Unknown error">>))),
                        data.errorCode),
             "registerPayment"))
    ELSE Returned(data)

\* registerPayment after the HTTP response arrived.
registerResponse(data) ==
    IF ~data.has
    THEN Thrown(handleError(OtherError(<<"Cannot read properties">>),
                            "registerPayment"))
    ELSE IF JsString(data.errorCode) # <<"0">>
    THEN Thrown(handleError(
             SatimError(<<"Payment registration failed: ">> \o
                        JsString(Or(Or(Lookup(ERROR_MESSAGES, data.errorCode),
                                       data.errorMessage),
                                    Str(<<"Unknown error">>))),
                        data.errorCode),
             "registerPayment"))
    ELSE IF ~Truthy(data.orderId) \/ ~Truthy(data.formUrl)
    THEN Thrown(handleError(
             SatimError(<<"Payment registration failed: ",
                          "Missing orderId or formUrl in response">>,
                        data.errorCode),
             "registerPayment"))
    ELSE Returned(data)

\* refundPayment after the HTTP response arrived.
refundResponse(data) ==
    IF ~data.has
    THEN Thrown(handleError(OtherError(<<"Cannot read properties">>),
                            "refundPayment"))
    ELSE IF JsString(data.errorCode) # <<"0">>
    THEN Thrown(handleError(
             SatimError(<<"Refund failed: ">> \o
                        JsString(Or(Or(Lookup(REFUND_ERROR_MESSAGES,
                                              data.errorCode),
                                       data.errorMessage),
                                    Str(<<"Unknown error">>))) \o
                        (IF data.errorCode \in
                              {Str(<<"5">>), Str(<<"6">>), Str(<<"7">>)}
                         THEN <<"hint">> \o JsString(data.errorCode)
                         ELSE <<>>),
                        data.errorCode),
             "refundPayment"))
    ELSE Returned(data)

\* verifyPayment after the HTTP response arrived; ErrorCode is compared
\* with '0' by !==, so the number 0 is not the success code.
verifyResponse(data) ==
    IF ~data.has
    THEN Thrown(handleError(OtherError(<<"Cannot read properties">>),
                            "verifyPayment"))
    ELSE IF data.ErrorCode # Str(<<"0">>)
    THEN Thrown(handleError(
             SatimError(<<"Payment verification failed: ">> \o
                        JsString(Or(Or(Lookup(ACKNOWLEDGE_ERROR_MESSAGES,
                                              data.ErrorCode),
                                       data.ErrorMessage),
                                    Str(<<"Unknown error">>))),
                        data.ErrorCode),
             "verifyPayment"))
    ELSE Returned(data)

-----------------------------------------------------------------------------
(* Logger *)

sensitiveKeys ==
    { <<"password">>, <<"secretKey">>, <<"authorization">>, <<"token">>,
      <<"cardNumber">>, <<"cvv">> }

\* A nested object as a value, held by its entries.
Obj(entries) == [t |-> "object", s |-> entries]

\* sanitizeMeta: the value under a sensitive key is replaced when truthy,
\* then nested objects are sanitized in turn.
RECURSIVE sanitizeMeta(_)
sanitizeMeta(meta) ==
    [i \in 1..Len(meta) |->
        LET v == IF meta[i][1] \in sensitiveKeys /\ Truthy(meta[i][2])
                 THEN Str(<<"***REDACTED***">>) ELSE meta[i][2]
        IN  << meta[i][1],
               IF v.t = "object" THEN Obj(sanitizeMeta(v.s)) ELSE v >>]

\* Logger.info, warn and debug: what reaches the underlying logger.
Log(level, message, meta) ==
    [level |-> level, message |-> message, meta |-> sanitizeMeta(meta)]

\* Logger.error(message, error): an Error instance is logged by its name and
\* message (and stack), anything else under the key error.
LogError(message, error, isError) ==
    Log("error", message,
        IF isError
        THEN << << <<"name">>, Str(<<error.name>>) >>,
                << <<"message">>, Str(error.message) >>,
                << <<"stack">>, Str(<<"stack of ", error.name>>) >> >>
        ELSE << << <<"error">>, Obj(error) >> >>)

-----------------------------------------------------------------------------
(* helpers *)

\* The decimal text of Date.now(), given as its leading digits and its last
\* four digits: an epoch-millisecond timestamp has thirteen digits.
PadStart(s, n, c) ==
    [i \in 1..(IF Len(s) < n THEN n ELSE Len(s)) |->
        IF Len(s) < n /\ i <= n - Len(s) THEN c
        ELSE s[i - (IF Len(s) < n THEN n - Len(s) ELSE 0)]]
DateNowText(now) == ToDecimal(now.high) \o PadStart(ToDecimal(now.low), 4, "0")

\* s.slice(-n)
SliceLast(s, n) == IF Len(s) <= n THEN s ELSE SubSeq(s, Len(s) - n + 1, Len(s))

\* s.substring(0, n)
Substring0(s, n) == IF Len(s) <= n THEN s ELSE SubSeq(s, 1, n)

\* generateOrderId without padStart on the random number.
generateOrderIdUnpadded(prefix, now, random) ==
    Str(Substring0(prefix, 3) \o SliceLast(DateNowText(now), 4) \o
        ToDecimal(random))

\* generateOrderId, for the prefix it is given, the value Date.now() returns
\* and the integer Math.floor(Math.random() * 1000) yields.
generateOrderId(prefix, now, random) ==
    Str(Substring0(prefix, 3) \o SliceLast(DateNowText(now), 4) \o
        PadStart(ToDecimal(random), 3, "0"))

-----------------------------------------------------------------------------
(* PaymentHandler *)

\* new Error(message)
PlainError(message) ==
    [name |-> "Error", message |-> message, code |-> Undefined,
     details |-> <<>>]

PayReturned(value) ==
    [kind |-> "return", value |-> value, error |-> NoApiError]
PayThrown(error) == [kind |-> "throw", value |-> NoValue, error |-> error]

\* mapOrderStatusToPaymentStatus with no case for 4.
mapOrderStatusNoRefund(orderStatus) ==
    IF ~Truthy(orderStatus) /\ orderStatus # Num(<<"0">>) THEN PENDING
    ELSE IF orderStatus \in { Num(<<"1">>), Num(<<"2">>), Num(<<"1", "1">>) }
    THEN SUCCESS
    ELSE IF orderStatus \in { Num(<<"6">>), Num(<<"-", "1">>) } THEN FAILED
    ELSE IF orderStatus = Num(<<"3">>) THEN CANCELLED
    ELSE PENDING

mapOrderStatusToPaymentStatus(orderStatus) ==
    IF ~Truthy(orderStatus) /\ orderStatus # Num(<<"0">>) THEN PENDING
    ELSE IF orderStatus \in { Num(<<"1">>), Num(<<"2">>), Num(<<"1", "1">>) }
    THEN SUCCESS
    ELSE IF orderStatus = Num(<<"4">>) THEN REFUNDED
    ELSE IF orderStatus \in { Num(<<"6">>), Num(<<"-", "1">>) } THEN FAILED
    ELSE IF orderStatus = Num(<<"3">>) THEN CANCELLED
    ELSE PENDING

\* The order number createPayment sends: order.orderId || generateOrderId().
orderNumberOf(order, now, random) ==
    Or(order.orderId, generateOrderId(<<"O", "R", "D">>, now, random))

\* !order.amount
amountMissing(order) == ~order.hasAmount \/ order.amount = 0

\* createPayment after registerPayment ended, with paymentId taken from
\* the order number instead of the gateway's orderId.
createPaymentResultOwnId(outcome, call) ==
    IF outcome.kind = "throw" THEN PayThrown(outcome.error)
    ELSE PayReturned([success |-> TRUE, status |-> PENDING,
                      paymentId |-> call.orderNumber,
                      paymentUrl |-> outcome.data.formUrl,
                      orderId |-> call.orderNumber, amount |-> call.amount])

\* createPayment after registerPayment ended.
createPaymentResult(outcome, call) ==
    IF outcome.kind = "throw" THEN PayThrown(outcome.error)
    ELSE PayReturned([success |-> TRUE, status |-> PENDING,
                      paymentId |-> outcome.data.orderId,
                      paymentUrl |-> outcome.data.formUrl,
                      orderId |-> call.orderNumber, amount |-> call.amount])

\* verifyPayment with the success flag taken from the mapped status.
verifyPaymentResultByStatus(outcome, paymentId) ==
    IF outcome.kind = "throw" THEN PayThrown(outcome.error)
    ELSE PayReturned(
           [success |->
              mapOrderStatusToPaymentStatus(outcome.data.OrderStatus) = SUCCESS,
            status |-> mapOrderStatusToPaymentStatus(outcome.data.OrderStatus),
            paymentId |-> paymentId, paymentUrl |-> Undefined,
            orderId |-> Or(outcome.data.OrderNumber, paymentId),
            amount |-> 0])

\* verifyPayment after SatimAPI.verifyPayment ended; the response's Amount
\* is taken as absent (Amount || 0).
verifyPaymentResult(outcome, paymentId) ==
    IF outcome.kind = "throw" THEN PayThrown(outcome.error)
    ELSE PayReturned(
           [success |-> outcome.data.ErrorCode = Str(<<"0">>),
            status |-> mapOrderStatusToPaymentStatus(outcome.data.OrderStatus),
            paymentId |-> paymentId, paymentUrl |-> Undefined,
            orderId |-> Or(outcome.data.OrderNumber, paymentId),
            amount |-> 0])

\* refundPayment after SatimAPI.refundPayment ended; errorCode is compared
\* with '0' by ===.
refundPaymentResult(outcome, call) ==
    IF outcome.kind = "throw" THEN PayThrown(outcome.error)
    ELSE PayReturned(
           [success |-> outcome.data.errorCode = Str(<<"0">>),
            status |-> IF outcome.data.errorCode = Str(<<"0">>)
                       THEN REFUNDED ELSE FAILED,
            paymentId |-> call.paymentId, paymentUrl |-> Undefined,
            orderId |-> Undefined, amount |-> call.amount])

\* What waitForPayment does with the outcome of a poll.
afterPollSuccessOnly(verification) ==
    IF verification.kind = "throw" THEN "throw"
    ELSE IF verification.value.status = SUCCESS THEN "return"
    ELSE "sleep"

afterPollRetry(verification) ==
    IF verification.kind = "throw" THEN "sleep"
    ELSE IF verification.value.status # PENDING THEN "return"
    ELSE "sleep"

afterPoll(verification) ==
    IF verification.kind = "throw" THEN "throw"
    ELSE IF verification.value.status # PENDING THEN "return"
    ELSE "sleep"

-----------------------------------------------------------------------------
(* The signature engine on its own *)

InitSig ==
    /\ secretKey = SharedSecret
    /\ sgPc = "idle"
    /\ sgPayload \in SigPayloads
    /\ sgSignature = NoSignature
    /\ sgSignature2 = NoSignature
    /\ sgVerPayload = <<>>
    /\ sgReceived = NoSignature
    /\ sgIsValid = FALSE
    /\ CbIdle
    /\ ApiIdle
    /\ PayIdle
    /\ WaitIdle
    /\ FnIdle
    /\ ConcIdle
    /\ RetryIdle

GenerateSignatureCall ==
    /\ sgPc = "idle"
    /\ sgSignature' = generateSignature(secretKey, sgPayload)
    /\ sgPc' = "signed"
    /\ UNCHANGED <<sgPayload, sgSignature2, sgVerPayload, sgReceived, sgIsValid>>
    /\ UNCHANGED <<cbVars, apiVars, payVars, waitVars, fnVars, concVars,
                   retryVars>>

GenerateSignatureAgain ==
    /\ sgPc = "signed"
    /\ sgSignature2 = NoSignature
    /\ sgSignature2' = generateSignature(secretKey, sgPayload)
    /\ UNCHANGED <<sgPc, sgPayload, sgSignature, sgVerPayload, sgReceived,
                   sgIsValid>>
    /\ UNCHANGED <<cbVars, apiVars, payVars, waitVars, fnVars, concVars,
                   retryVars>>

VerifySignatureCall ==
    /\ sgPc = "signed"
    /\ \E q \in SigPayloads :
         \E r \in ReceivedSignatures(secretKey, q, sgSignature) :
            /\ sgVerPayload' = q
            /\ sgReceived' = r
            /\ sgIsValid' = verifySignature(secretKey, q, r)
    /\ sgPc' = "verified"
    /\ UNCHANGED <<sgPayload, sgSignature, sgSignature2>>
    /\ UNCHANGED <<cbVars, apiVars, payVars, waitVars, fnVars, concVars,
                   retryVars>>

NextSig ==
    \/ GenerateSignatureCall
    \/ GenerateSignatureAgain
    \/ VerifySignatureCall

SpecSig == InitSig /\ [][NextSig]_vars

-----------------------------------------------------------------------------
(* The callback processor *)

\* Keys a CallbackHandler is constructed with: the shared gateway secret,
\* or the empty key SatimClient passes.
CallbackSecrets == { SharedSecret, "" }

Absent == Undefined

\* The body's fields in the order the gateway writes them; an absent field
\* has no entry.
BodyFields(paymentId, orderId, status, amount, currency) ==
    SelectSeq(<< <<<<"paymentId">>, paymentId>>, <<<<"orderId">>, orderId>>,
                 <<<<"status">>, status>>, <<<<"amount">>, amount>>,
                 <<<<"currency">>, currency>> >>,
              LAMBDA e : e[2] # Absent)

PaymentIds == { Absent, Str(<<>>), Str(<<"P1">>) }
OrderIds == { Absent, Str(<<"O1">>) }
Statuses ==
    { Absent, Str(<<"0">>), Str(<<"2">>), Str(<<"3">>), Str(<<"4">>),
      Num(<<"6">>), Str(<<"6">>), Str(<<"DEPOSITED">>), Str(<<"PENDING">>),
      Str(<<"CANCELLED">>), Str(<<"BOGUS">>) }
CallbackAmounts == { Absent, Num(<<"0">>), Num(<<"5", "0", "0", "0">>) }
Currencies == { Absent, Str(<<"DZD">>) }

CallbackBodies ==
    { BodyFields(p, o, st, a, c) :
        p \in PaymentIds, o \in OrderIds, st \in Statuses,
        a \in CallbackAmounts, c \in Currencies }

\* Signatures a sender may attach to the fields f: none, an empty one, the
\* gateway's, one made without the shared secret, arbitrary text.
BodySignatures(f) ==
    { NoSignature, Text("", 0),
      generateSignature(SharedSecret, f),
      generateSignature("", f),
      Text("INVALID_SIGNATURE", 17) }

HeaderSignatures(f) ==
    { NoSignature, generateSignature(SharedSecret, f),
      Mac(SharedSecret, DataString(f), FALSE) }

CallbackRequests ==
    { [body |-> "undefined", fields |-> <<>>, signature |-> NoSignature,
       header |-> NoSignature] } \cup
    UNION { { [body |-> "object", fields |-> f, signature |-> bs,
               header |-> hs] :
                bs \in BodySignatures(f), hs \in HeaderSignatures(f) } :
            f \in CallbackBodies }

\* What a registered outcome handler may throw.
HandlerErrors ==
    { Error("Error", <<"handler failed">>), Error("NotAnError", <<>>) }

InitCb ==
    /\ secretKey \in CallbackSecrets
    /\ CbIdle
    /\ SigIdle
    /\ ApiIdle
    /\ PayIdle
    /\ WaitIdle
    /\ FnIdle
    /\ ConcIdle
    /\ RetryIdle

OnSuccess ==
    /\ cbPc = "idle"
    /\ onPaymentSuccess' = TRUE
    /\ UNCHANGED <<secretKey, onPaymentFailed, onPaymentCancelled, cbPc, cbReq,
                   cbVerified, cbCalls, cbRes, cbHandlerErr, cbPromise>>
    /\ UNCHANGED <<sigVars, apiVars, payVars, waitVars, fnVars, concVars,
                   retryVars>>

OnFailure ==
    /\ cbPc = "idle"
    /\ onPaymentFailed' = TRUE
    /\ UNCHANGED <<secretKey, onPaymentSuccess, onPaymentCancelled, cbPc, cbReq,
                   cbVerified, cbCalls, cbRes, cbHandlerErr, cbPromise>>
    /\ UNCHANGED <<sigVars, apiVars, payVars, waitVars, fnVars, concVars,
                   retryVars>>

OnCancellation ==
    /\ cbPc = "idle"
    /\ onPaymentCancelled' = TRUE
    /\ UNCHANGED <<secretKey, onPaymentSuccess, onPaymentFailed, cbPc, cbReq,
                   cbVerified, cbCalls, cbRes, cbHandlerErr, cbPromise>>
    /\ UNCHANGED <<sigVars, apiVars, payVars, waitVars, fnVars, concVars,
                   retryVars>>

\* A request reaches handle.
Receive ==
    /\ cbPc = "idle"
    /\ \E req \in CallbackRequests : cbReq' = req
    /\ cbPc' = "received"
    /\ UNCHANGED <<cbVerified, cbCalls, cbRes, cbHandlerErr, cbPromise>>
    /\ UNCHANGED <<secretKey, onPaymentSuccess, onPaymentFailed,
                   onPaymentCancelled>>
    /\ UNCHANGED <<sigVars, apiVars, payVars, waitVars, fnVars, concVars,
                   retryVars>>

\* handle from its first statement to the await of an outcome handler, or to
\* its end when no handler is awaited.
Handle ==
    /\ cbPc = "received"
    /\ LET r == handleSteps(secretKey, cbReq)
       IN  /\ cbVerified' = r.verified
           /\ IF r.error # NoError
              THEN /\ cbRes' = Append(cbRes, ErrorResponse(r.error, cbReq))
                   /\ cbCalls' = cbCalls
                   /\ cbPc' = "done"
                   /\ cbPromise' = "resolved"
              ELSE IF Registered(r.slot)
              THEN /\ cbCalls' = cbCalls \o handlerCalls(r.slot)
                   /\ cbRes' = cbRes
                   /\ cbPc' = "awaiting"
                   /\ cbPromise' = cbPromise
              ELSE /\ cbRes' = Append(cbRes, SuccessResponse(cbReq))
                   /\ cbCalls' = cbCalls
                   /\ cbPc' = "done"
                   /\ cbPromise' = "resolved"
    /\ UNCHANGED <<secretKey, onPaymentSuccess, onPaymentFailed,
                   onPaymentCancelled, cbReq, cbHandlerErr>>
    /\ UNCHANGED <<sigVars, apiVars, payVars, waitVars, fnVars, concVars,
                   retryVars>>

\* The awaited outcome handler returns: handle sends the success response.
HandlerReturns ==
    /\ cbPc = "awaiting"
    /\ cbRes' = Append(cbRes, SuccessResponse(cbReq))
    /\ cbPc' = "done"
    /\ cbPromise' = "resolved"
    /\ UNCHANGED <<secretKey, onPaymentSuccess, onPaymentFailed,
                   onPaymentCancelled, cbReq, cbVerified, cbCalls,
                   cbHandlerErr>>
    /\ UNCHANGED <<sigVars, apiVars, payVars, waitVars, fnVars, concVars,
                   retryVars>>

\* The awaited outcome handler throws: handle's catch sends the error
\* response.
HandlerThrows ==
    /\ cbPc = "awaiting"
    /\ \E e \in HandlerErrors :
          /\ cbHandlerErr' = e
          /\ cbRes' = Append(cbRes, ErrorResponse(e, cbReq))
    /\ cbPc' = "done"
    /\ cbPromise' = "resolved"
    /\ UNCHANGED <<secretKey, onPaymentSuccess, onPaymentFailed,
                   onPaymentCancelled, cbReq, cbVerified, cbCalls>>
    /\ UNCHANGED <<sigVars, apiVars, payVars, waitVars, fnVars, concVars,
                   retryVars>>

\* handle's caller (the middleware) resumes; the invocation is over and
\* nothing of it is kept.
Return ==
    /\ cbPc = "done"
    /\ cbPc' = "idle"
    /\ cbReq' = NoRequest
    /\ cbVerified' = FALSE
    /\ cbCalls' = <<>>
    /\ cbRes' = <<>>
    /\ cbHandlerErr' = NoError
    /\ cbPromise' = "pending"
    /\ UNCHANGED <<secretKey, onPaymentSuccess, onPaymentFailed,
                   onPaymentCancelled>>
    /\ UNCHANGED <<sigVars, apiVars, payVars, waitVars, fnVars, concVars,
                   retryVars>>

NextCb ==
    \/ OnSuccess
    \/ OnFailure
    \/ OnCancellation
    \/ Receive
    \/ Handle
    \/ HandlerReturns
    \/ HandlerThrows
    \/ Return

SpecCb == InitCb /\ [][NextCb]_vars

-----------------------------------------------------------------------------
(* Concurrent invocations of CallbackHandler.handle *)

\* CallbackHandler has no field that handle writes: everything handle works
\* on is a parameter or a local of the invocation.
ConcBodies ==
    { BodyFields(p, Str(<<"O1">>), st, Num(<<"5", "0", "0", "0">>),
                 Str(<<"DZD">>)) :
        p \in { Str(<<"P1">>), Str(<<"P2">>) },
        st \in { Str(<<"2">>), Str(<<"6">>) } }

ConcRequests ==
    UNION { { [body |-> "object", fields |-> f, signature |-> bs,
               header |-> NoSignature] :
                bs \in { generateSignature(SharedSecret, f),
                         Text("INVALID_SIGNATURE", 17) } } :
            f \in ConcBodies }

\* The request invocation i reads is another invocation's.
requestOfShared(inv, i) == inv[1].req

\* req, the parameter of invocation i of handle
requestOf(inv, i) == inv[i].req

\* What reaches the outcome handler: the callback data of the invocation.
Dispatch(i, slot, req) ==
    [inv |-> i, slot |-> slot, paymentId |-> Get(req.fields, <<"paymentId">>)]

InitConc ==
    /\ secretKey = SharedSecret
    /\ CbIdle
    /\ SigIdle
    /\ ApiIdle
    /\ PayIdle
    /\ WaitIdle
    /\ FnIdle
    /\ ConcIdle
    /\ RetryIdle

ConcUnchanged ==
    /\ UNCHANGED <<secretKey, cbPc, cbReq, cbVerified, cbCalls, cbRes,
                   cbHandlerErr, cbPromise>>
    /\ UNCHANGED <<sigVars, apiVars, payVars, waitVars, fnVars, retryVars>>

\* onPaymentSuccess, onPaymentFailed, onPaymentCancelled: the application
\* registers its handlers before callbacks are served.
ConcRegister ==
    /\ \A i \in 1..MaxInvocations : ccInv[i].pc = "idle"
    /\ ~onPaymentCancelled
    /\ onPaymentSuccess' = TRUE
    /\ onPaymentFailed' = TRUE
    /\ onPaymentCancelled' = TRUE
    /\ UNCHANGED concVars
    /\ ConcUnchanged

\* A request reaches handle while other invocations may be in progress.
ConcReceive(i) ==
    /\ ccInv[i].pc = "idle"
    /\ \E req \in ConcRequests :
          ccInv' = [ccInv EXCEPT ![i].pc = "received", ![i].req = req]
    /\ UNCHANGED <<ccDispatch, onPaymentSuccess, onPaymentFailed,
                   onPaymentCancelled>>
    /\ ConcUnchanged

\* Invocation i runs from handle's first statement to the await of an
\* outcome handler, or to its end.
ConcHandle(i) ==
    /\ ccInv[i].pc = "received"
    /\ LET req == requestOf(ccInv, i)
           r == handleSteps(secretKey, req)
       IN  IF r.error # NoError
           THEN /\ ccInv' = [ccInv EXCEPT
                                ![i].pc = "done",
                                ![i].res = <<ErrorResponse(r.error, req)>>]
                /\ ccDispatch' = ccDispatch
           ELSE IF Registered(r.slot)
           THEN /\ ccInv' = [ccInv EXCEPT ![i].pc = "awaiting"]
                /\ ccDispatch' = Append(ccDispatch, Dispatch(i, r.slot, req))
           ELSE /\ ccInv' = [ccInv EXCEPT
                                ![i].pc = "done",
                                ![i].res = <<SuccessResponse(req)>>]
                /\ ccDispatch' = ccDispatch
    /\ UNCHANGED <<onPaymentSuccess, onPaymentFailed, onPaymentCancelled>>
    /\ ConcUnchanged

ConcHandlerReturns(i) ==
    /\ ccInv[i].pc = "awaiting"
    /\ ccInv' = [ccInv EXCEPT
                   ![i].pc = "done",
                   ![i].res = <<SuccessResponse(requestOf(ccInv, i))>>]
    /\ UNCHANGED <<ccDispatch, onPaymentSuccess, onPaymentFailed,
                   onPaymentCancelled>>
    /\ ConcUnchanged

ConcHandlerThrows(i) ==
    /\ ccInv[i].pc = "awaiting"
    /\ \E e \in HandlerErrors :
          ccInv' = [ccInv EXCEPT
                      ![i].pc = "done",
                      ![i].herr = e,
                      ![i].res = <<ErrorResponse(e, requestOf(ccInv, i))>>]
    /\ UNCHANGED <<ccDispatch, onPaymentSuccess, onPaymentFailed,
                   onPaymentCancelled>>
    /\ ConcUnchanged

\* Every invocation has answered; nothing of them is kept.
ConcReturn ==
    /\ \E i \in 1..MaxInvocations : ccInv[i].pc = "done"
    /\ \A i \in 1..MaxInvocations : ccInv[i].pc \in { "idle", "done" }
    /\ ccInv' = [i \in 1..MaxInvocations |-> NoInvocation]
    /\ ccDispatch' = <<>>
    /\ UNCHANGED <<onPaymentSuccess, onPaymentFailed, onPaymentCancelled>>
    /\ ConcUnchanged

NextConc ==
    \/ ConcRegister
    \/ \E i \in 1..MaxInvocations : ConcReceive(i)
    \/ \E i \in 1..MaxInvocations : ConcHandle(i)
    \/ \E i \in 1..MaxInvocations : ConcHandlerReturns(i)
    \/ \E i \in 1..MaxInvocations : ConcHandlerThrows(i)
    \/ ConcReturn

SpecConc == InitConc /\ [][NextConc]_vars

-----------------------------------------------------------------------------
(* The gateway client *)

\* Amounts run in steps of 50 centimes up to 50 * MaxAmountSteps.
MaxAmountSteps == 200

ApiAmounts ==
    { 50 * k : k \in (-2)..MaxAmountSteps } \cup { 99, 101, 4999, 5001 }

Data(errorCode, errorMessage, orderId, formUrl) ==
    [has |-> TRUE, errorCode |-> errorCode, ErrorCode |-> Undefined,
     errorMessage |-> errorMessage, ErrorMessage |-> Undefined,
     orderId |-> orderId, formUrl |-> formUrl,
     OrderStatus |-> Undefined, OrderNumber |-> Undefined]

\* A body of acknowledgeTransaction.do, whose fields are capitalised.
VerifyData(ErrorCode, ErrorMessage, OrderStatus, OrderNumber) ==
    [has |-> TRUE, errorCode |-> Undefined, ErrorCode |-> ErrorCode,
     errorMessage |-> Undefined, ErrorMessage |-> ErrorMessage,
     orderId |-> Undefined, formUrl |-> Undefined,
     OrderStatus |-> OrderStatus, OrderNumber |-> OrderNumber]

ErrorCodes ==
    { Str(<<"0">>), Num(<<"0">>), Str(<<"1">>), Str(<<"5">>), Str(<<"7">>),
      Str(<<"9">>), Undefined }

\* Bodies the gateway may answer register.do with.
RegisterResponses ==
    { NoData } \cup
    { Data(c, m, o, f) :
        c \in ErrorCodes,
        m \in { Undefined, Str(<<"gateway message">>) },
        o \in { Undefined, Str(<<>>), Str(<<"X">>) },
        f \in { Undefined, Str(<<"https://gateway/pay">>) } }

\* Bodies the gateway may answer refund.do with.
RefundResponses ==
    { NoData } \cup
    { Data(c, m, Undefined, Undefined) :
        c \in ErrorCodes, m \in { Undefined, Str(<<"gateway message">>) } }

\* Numeric order statuses run from -MaxStatus to MaxStatus.
MaxStatus == 12

\* Number.prototype.toString for an integer.
NumberText(n) == IF n < 0 THEN <<"-">> \o ToDecimal(0 - n) ELSE ToDecimal(n)
Number(n) == Num(NumberText(n))

OrderStatuses == { Undefined } \cup { Number(n) : n \in (-1)..6 } \cup
                 { Number(11) }

\* Bodies the gateway may answer acknowledgeTransaction.do with.
VerifyResponses ==
    { NoData } \cup
    { VerifyData(c, m, Undefined, Undefined) :
        c \in ErrorCodes \ { Str(<<"0">>) },
        m \in { Undefined, Str(<<"gateway message">>) } } \cup
    { VerifyData(Str(<<"0">>), Undefined, st, o) :
        st \in OrderStatuses, o \in { Undefined, Str(<<"O1">>) } }

\* Ways the HTTP call may fail.
TransportErrors ==
    { AxiosError("ECONNABORTED", FALSE, NoData, TRUE),
      AxiosError("ERR_BAD_RESPONSE", TRUE,
                 Data(Str(<<"5">>), Str(<<"gateway message">>), Undefined,
                      Undefined), TRUE),
      AxiosError("ERR_BAD_RESPONSE", TRUE,
                 VerifyData(Str(<<"6">>), Str(<<"gateway message">>),
                            Undefined, Undefined), TRUE),
      AxiosError("ERR_BAD_RESPONSE", TRUE, NoData, TRUE),
      AxiosError("ENOTFOUND", FALSE, NoData, TRUE),
      AxiosError("ERR_BAD_OPTION", FALSE, NoData, FALSE),
      OtherError(<<"unexpected">>) }

\* The merchant credentials of the configuration, which PaymentHandler
\* puts into every request.
UserName == "merchant"
Password == "merchant-password"

\* URLSearchParams.toString() for values that need no escaping.
RECURSIVE QueryString(_)
QueryString(params) ==
    IF params = <<>> THEN <<>>
    ELSE << Head(params)[1], "=" >> \o Head(params)[2] \o
         (IF Tail(params) = <<>> THEN <<>> ELSE <<"&">>) \o
         QueryString(Tail(params))

\* config.url of the request an operation issues: register.do is posted
\* with its parameters in the body, the other two carry them in the URL.
requestUrl(call) ==
    CASE call.op = "registerPayment" -> <<"/register.do">>
      [] call.op = "verifyPayment" ->
             <<"/public/acknowledgeTransaction.do", "?">> \o
             QueryString(<< <<"userName", <<UserName>>>>,
                            <<"password", <<Password>>>>,
                            <<"mdOrder", JsString(call.orderNumber)>>,
                            <<"language", <<"en">>>> >>)
      [] call.op = "refundPayment" ->
             <<"/refund.do", "?">> \o
             QueryString(<< <<"userName", <<UserName>>>>,
                            <<"password", <<Password>>>>,
                            <<"orderId", JsString(call.orderNumber)>>,
                            <<"amount", NumberText(call.amount)>> >>)

Field(key, value) == << <<key>>, value >>

\* The fields of a response body, as an object.
DataObject(data) ==
    SelectSeq(<< Field("errorCode", data.errorCode),
                 Field("ErrorCode", data.ErrorCode),
                 Field("errorMessage", data.errorMessage),
                 Field("ErrorMessage", data.ErrorMessage),
                 Field("orderId", data.orderId),
                 Field("formUrl", data.formUrl),
                 Field("OrderStatus", data.OrderStatus),
                 Field("OrderNumber", data.OrderNumber) >>,
              LAMBDA e : e[2] # Undefined)

\* What an operation logs from its first statement to the HTTP call: its
\* opening record and, unless the amount was rejected, the record of the
\* request interceptor.
startLog(call, rejected) ==
    << Log("info",
           CASE call.op = "registerPayment" -> "Registering payment order"
             [] call.op = "verifyPayment"   -> "Verifying payment"
             [] call.op = "refundPayment"   -> "Refunding payment",
           CASE call.op = "registerPayment" ->
                    << Field("orderNumber", call.orderNumber) >>
             [] call.op = "verifyPayment" ->
                    << Field("orderId", call.orderNumber) >>
             [] call.op = "refundPayment" ->
                    << Field("orderId", call.orderNumber),
                       Field("amount", Number(call.amount)) >>) >> \o
    (IF rejected THEN <<>>
     ELSE << Log("debug", "API Request",
                 << Field("method",
                          Str(<< IF call.op = "registerPayment"
                                 THEN "post" ELSE "get" >>)),
                    Field("url", Str(requestUrl(call))) >>) >>)

\* The record handleError writes for an error that is neither an HTTP
\* failure nor a SatimError.
unknownErrorLog(error, operation) ==
    LogError("Unknown error in SATIM API",
             << Field("operation", Str(<<operation>>)),
                Field("error", Obj(<< Field("name", Str(<<error.name>>)),
                                      Field("message", Str(error.message)) >>))
             >>, FALSE)

\* What an operation logs once the response arrived: the records of the
\* response interceptor and of logAPICall, then those of the operation.
\* The response has status 200; the duration is not modelled.
responseLog(call, data) ==
    << Log("debug", "API Response",
           << Field("status", Num(<<"2", "0", "0">>)),
              Field("errorCode", Or(data.errorCode, data.ErrorCode)) >>),
       Log("debug", "API Call",
           << Field("method", Str(<< IF call.op = "registerPayment"
                                     THEN "POST" ELSE "GET" >>)),
              Field("url", Str(<< Head(requestUrl(call)) >>)),
              Field("statusCode", Num(<<"2", "0", "0">>)),
              Field("duration", Undefined) >>) >> \o
    (IF ~data.has
     THEN << unknownErrorLog(OtherError(<<"Cannot read properties">>),
                             call.op) >>
     ELSE CASE call.op = "registerPayment" ->
                 << Log("debug", "SATIM register.do response",
                        << Field("errorCode", data.errorCode),
                           Field("errorMessage", data.errorMessage),
                           Field("orderId", data.orderId),
                           Field("formUrl", data.formUrl),
                           Field("fullResponse", Obj(DataObject(data))) >>)
                 >> \o
                 (IF JsString(data.errorCode) # <<"0">> THEN <<>>
                  ELSE IF ~Truthy(data.orderId) \/ ~Truthy(data.formUrl)
                  THEN << LogError(
                            "Missing required fields in SATIM response",
                            DataObject(data), FALSE) >>
                  ELSE << Log("info",
                              "Payment order registered successfully",
                              << Field("orderId", data.orderId),
                                 Field("formUrl", data.formUrl) >>) >>)
            [] call.op = "verifyPayment" ->
                 (IF data.ErrorCode # Str(<<"0">>) THEN <<>>
                  ELSE << Log("info", "Payment verified successfully",
                              << Field("orderId", call.orderNumber),
                                 Field("orderStatus", data.OrderStatus),
                                 Field("orderNumber", data.OrderNumber) >>)
                       >>)
            [] call.op = "refundPayment" ->
                 << Log("debug", "SATIM refund.do response",
                        << Field("errorCode", data.errorCode),
                           Field("errorMessage", data.errorMessage),
                           Field("fullResponse", Obj(DataObject(data))) >>)
                 >> \o
                 (IF JsString(data.errorCode) # <<"0">> THEN <<>>
                  ELSE << Log("info", "Payment refunded successfully",
                              << Field("orderId", call.orderNumber) >>) >>))

\* What is logged when the HTTP call fails: the record of the response
\* interceptor for an error of the HTTP client, then that of handleError.
failureLog(error, operation) ==
    (IF error.name = "AxiosError"
     THEN << LogError("API Response Error", error, TRUE) >> ELSE <<>>) \o
    (IF error.name = "AxiosError" /\ error.code = "ECONNABORTED"
     THEN << LogError("Request timeout",
                      << Field("operation", Str(<<operation>>)) >>, FALSE) >>
     ELSE IF error.name = "AxiosError" /\ error.hasResponse
     THEN << LogError("SATIM API error",
                << Field("operation", Str(<<operation>>)),
                   Field("errorCode",
                         Or(Or(error.data.errorCode, error.data.ErrorCode),
                            SYSTEM_ERROR)),
                   Field("errorMessage",
                         Or(Or(error.data.errorMessage,
                               error.data.ErrorMessage),
                            Str(<<"Unknown server error">>))),
                   Field("status", Num(<<"5", "0", "0">>)) >>, FALSE) >>
     ELSE IF error.name = "AxiosError" /\ error.hasRequest
     THEN << LogError("Network error - no response from SATIM",
                      << Field("operation", Str(<<operation>>)) >>, FALSE) >>
     ELSE << unknownErrorLog(error, operation) >>)

OrderNumbers == { Str(<<"O1">>) }
MdOrders == { Str(<<"X">>) }

InitApi ==
    /\ secretKey = SharedSecret
    /\ ApiIdle
    /\ SigIdle
    /\ CbIdle
    /\ PayIdle
    /\ WaitIdle
    /\ FnIdle
    /\ ConcIdle
    /\ RetryIdle

\* registerPayment from its first statement to the HTTP call, or to its end
\* when the amount is rejected.
registerPaymentStart(amount, orderNumber) ==
    /\ apiPc = "idle"
    /\ apiCall' = [op |-> "registerPayment", amount |-> amount,
                   orderNumber |-> orderNumber]
    /\ IF registerValidate(amount) # NoApiError
       THEN /\ apiOutcome' = Thrown(handleError(registerValidate(amount),
                                                "registerPayment"))
            /\ apiHttp' = apiHttp
            /\ apiLog' = apiLog \o startLog(apiCall', TRUE)
            /\ apiPc' = "done"
       ELSE /\ apiHttp' = Append(apiHttp,
                                 registerRequest(amount, orderNumber))
            /\ apiLog' = apiLog \o startLog(apiCall', FALSE)
            /\ apiOutcome' = apiOutcome
            /\ apiPc' = "http"
    /\ UNCHANGED <<apiResp, apiFailure>>

RegisterPayment ==
    /\ \E amount \in ApiAmounts, orderNumber \in OrderNumbers :
          registerPaymentStart(amount, orderNumber)
    /\ UNCHANGED <<sigVars, cbVars, payVars, waitVars, fnVars, concVars,
                   retryVars>>

\* verifyPayment from its first statement to the HTTP call.
verifyPaymentStart(mdOrder) ==
    /\ apiPc = "idle"
    /\ apiCall' = [op |-> "verifyPayment", amount |-> 0,
                   orderNumber |-> mdOrder]
    /\ apiHttp' = Append(apiHttp, verifyRequest(mdOrder))
    /\ apiLog' = apiLog \o startLog(apiCall', FALSE)
    /\ apiPc' = "http"
    /\ UNCHANGED <<apiResp, apiFailure, apiOutcome>>

VerifyPayment ==
    /\ \E mdOrder \in MdOrders : verifyPaymentStart(mdOrder)
    /\ UNCHANGED <<sigVars, cbVars, payVars, waitVars, fnVars, concVars,
                   retryVars>>

\* refundPayment from its first statement to the HTTP call, or to its end
\* when the amount is rejected.
refundPaymentStart(amount, orderId) ==
    /\ apiPc = "idle"
    /\ apiCall' = [op |-> "refundPayment", amount |-> amount,
                   orderNumber |-> orderId]
    /\ IF refundValidate(amount) # NoApiError
       THEN /\ apiOutcome' = Thrown(handleError(refundValidate(amount),
                                                "refundPayment"))
            /\ apiHttp' = apiHttp
            /\ apiLog' = apiLog \o startLog(apiCall', TRUE)
            /\ apiPc' = "done"
       ELSE /\ apiHttp' = Append(apiHttp, refundRequest(amount))
            /\ apiLog' = apiLog \o startLog(apiCall', FALSE)
            /\ apiOutcome' = apiOutcome
            /\ apiPc' = "http"
    /\ UNCHANGED <<apiResp, apiFailure>>

RefundPayment ==
    /\ \E amount \in ApiAmounts, orderId \in MdOrders :
          refundPaymentStart(amount, orderId)
    /\ UNCHANGED <<sigVars, cbVars, payVars, waitVars, fnVars, concVars,
                   retryVars>>

\* The gateway answers register.do; registerPayment runs to its end.
RegisterResponds ==
    /\ apiPc = "http"
    /\ apiCall.op = "registerPayment"
    /\ \E data \in RegisterResponses :
          /\ apiResp' = [got |-> TRUE, data |-> data]
          /\ apiOutcome' = registerResponse(data)
          /\ apiLog' = apiLog \o responseLog(apiCall, data)
    /\ apiPc' = "done"
    /\ UNCHANGED <<apiCall, apiHttp, apiFailure>>
    /\ UNCHANGED <<sigVars, cbVars, payVars, waitVars, fnVars, concVars,
                   retryVars>>

\* The gateway answers acknowledgeTransaction.do; verifyPayment runs to its
\* end.
VerifyResponds ==
    /\ apiPc = "http"
    /\ apiCall.op = "verifyPayment"
    /\ \E data \in VerifyResponses :
          /\ apiResp' = [got |-> TRUE, data |-> data]
          /\ apiOutcome' = verifyResponse(data)
          /\ apiLog' = apiLog \o responseLog(apiCall, data)
    /\ apiPc' = "done"
    /\ UNCHANGED <<apiCall, apiHttp, apiFailure>>
    /\ UNCHANGED <<sigVars, cbVars, payVars, waitVars, fnVars, concVars,
                   retryVars>>

\* The gateway answers refund.do; refundPayment runs to its end.
RefundResponds ==
    /\ apiPc = "http"
    /\ apiCall.op = "refundPayment"
    /\ \E data \in RefundResponses :
          /\ apiResp' = [got |-> TRUE, data |-> data]
          /\ apiOutcome' = refundResponse(data)
          /\ apiLog' = apiLog \o responseLog(apiCall, data)
    /\ apiPc' = "done"
    /\ UNCHANGED <<apiCall, apiHttp, apiFailure>>
    /\ UNCHANGED <<sigVars, cbVars, payVars, waitVars, fnVars, concVars,
                   retryVars>>

\* The HTTP call fails; the operation's catch runs handleError.
HttpFails ==
    /\ apiPc = "http"
    /\ \E e \in TransportErrors :
          /\ apiFailure' = e
          /\ apiOutcome' = Thrown(handleError(e, apiCall.op))
          /\ apiLog' = apiLog \o failureLog(e, apiCall.op)
    /\ apiPc' = "done"
    /\ UNCHANGED <<apiCall, apiHttp, apiResp>>
    /\ UNCHANGED <<sigVars, cbVars, payVars, waitVars, fnVars, concVars,
                   retryVars>>

\* The caller resumes; the client keeps nothing of the call.
apiReset ==
    /\ apiPc' = "idle"
    /\ apiCall' = NoCall
    /\ apiHttp' = <<>>
    /\ apiResp' = NoResponse
    /\ apiFailure' = NoFailure
    /\ apiLog' = <<>>
    /\ apiOutcome' = NoOutcome

ApiReturn ==
    /\ apiPc = "done"
    /\ apiReset
    /\ UNCHANGED <<sigVars, cbVars, payVars, waitVars, fnVars, concVars,
                   retryVars>>

NextApi ==
    \/ RegisterPayment
    \/ VerifyPayment
    \/ RefundPayment
    \/ RegisterResponds
    \/ VerifyResponds
    \/ RefundResponds
    \/ HttpFails
    \/ ApiReturn

SpecApi == InitApi /\ [][NextApi]_vars

-----------------------------------------------------------------------------
(* The payment orchestrator over the gateway client *)

\* Values of Date.now(): thirteen digits, of which the last four vary.
Timestamps ==
    { [high |-> 176234567, low |-> l] : l \in { 0, 7, 42, 999, 1000, 9999 } }

\* Values of Math.floor(Math.random() * 1000).
Randoms == { 0, 5, 42, 99, 100, 999 }

Order(orderId, hasAmount, amount) ==
    [orderId |-> orderId, hasAmount |-> hasAmount, amount |-> amount]

\* Order ids a caller may supply, one character per element: a short one,
\* and `ORDER_${Date.now()}` of the integration example.
SuppliedOrderIds ==
    { Str(<<"O", "1">>),
      Str(<<"O", "R", "D", "E", "R", "_">> \o
          DateNowText([high |-> 176234567, low |-> 42])) }

\* Orders createPayment may be given: with or without an orderId, with or
\* without an amount.
Orders ==
    { Order(o, FALSE, 0) : o \in { Undefined, Str(<<"O", "1">>) } } \cup
    { Order(o, TRUE, a) :
        o \in { Undefined, Str(<<>>) } \cup SuppliedOrderIds,
        a \in { 0, 4999, 5000, 5050, 10000 } }

InitPay ==
    /\ secretKey = SharedSecret
    /\ PayIdle
    /\ ApiIdle
    /\ SigIdle
    /\ CbIdle
    /\ WaitIdle
    /\ FnIdle
    /\ ConcIdle
    /\ RetryIdle

\* createPayment from its first statement to the call of registerPayment,
\* which runs to its HTTP call, or to its end when there is no amount.
CreatePayment ==
    /\ phPc = "idle"
    /\ \E order \in Orders, now \in Timestamps, random \in Randoms :
          LET orderNumber == orderNumberOf(order, now, random)
          IN  /\ phCall' = [op |-> "createPayment", order |-> order,
                            orderNumber |-> orderNumber,
                            paymentId |-> Undefined,
                            amount |-> order.amount]
              /\ IF amountMissing(order)
                 THEN /\ phOutcome' =
                            PayThrown(PlainError(<<"Amount is required">>))
                      /\ phPc' = "done"
                      /\ UNCHANGED apiVars
                 ELSE /\ registerPaymentStart(order.amount, orderNumber)
                      /\ phOutcome' = phOutcome
                      /\ phPc' = "api"
    /\ UNCHANGED <<sigVars, cbVars, waitVars, fnVars, concVars,
                   retryVars>>

\* PaymentHandler.verifyPayment up to the HTTP call of SatimAPI.verifyPayment.
HandlerVerifyPayment ==
    /\ phPc = "idle"
    /\ \E paymentId \in MdOrders :
          /\ phCall' = [NoPayCall EXCEPT !.op = "verifyPayment",
                                         !.paymentId = paymentId]
          /\ verifyPaymentStart(paymentId)
    /\ phPc' = "api"
    /\ UNCHANGED phOutcome
    /\ UNCHANGED <<sigVars, cbVars, waitVars, fnVars, concVars,
                   retryVars>>

\* PaymentHandler.refundPayment up to the HTTP call of
\* SatimAPI.refundPayment, or to the latter's end when it rejects the amount.
HandlerRefundPayment ==
    /\ phPc = "idle"
    /\ \E paymentId \in MdOrders, amount \in { 50, 2500, 5000 } :
          /\ phCall' = [NoPayCall EXCEPT !.op = "refundPayment",
                                         !.paymentId = paymentId,
                                         !.amount = amount]
          /\ refundPaymentStart(amount, paymentId)
    /\ phPc' = "api"
    /\ UNCHANGED phOutcome
    /\ UNCHANGED <<sigVars, cbVars, waitVars, fnVars, concVars,
                   retryVars>>

\* The awaited SatimAPI operation ended; the PaymentHandler operation runs
\* to its end.
PayResume ==
    /\ phPc = "api"
    /\ apiPc = "done"
    /\ phOutcome' =
          CASE phCall.op = "createPayment" ->
                   createPaymentResult(apiOutcome, phCall)
            [] phCall.op = "verifyPayment" ->
                   verifyPaymentResult(apiOutcome, phCall.paymentId)
            [] phCall.op = "refundPayment" ->
                   refundPaymentResult(apiOutcome, phCall)
    /\ phPc' = "done"
    /\ UNCHANGED phCall
    /\ UNCHANGED <<sigVars, cbVars, apiVars, waitVars, fnVars, concVars,
                   retryVars>>

\* The caller resumes; neither object keeps anything of the call.
PayReturn ==
    /\ phPc = "done"
    /\ phPc' = "idle"
    /\ phCall' = NoPayCall
    /\ phOutcome' = NoPayOutcome
    /\ apiReset
    /\ UNCHANGED <<sigVars, cbVars, waitVars, fnVars, concVars,
                   retryVars>>

NextPay ==
    \/ CreatePayment
    \/ HandlerVerifyPayment
    \/ HandlerRefundPayment
    \/ RegisterResponds
    \/ VerifyResponds
    \/ RefundResponds
    \/ HttpFails
    \/ PayResume
    \/ PayReturn

SpecPay == InitPay /\ [][NextPay]_vars

-----------------------------------------------------------------------------
(* waitForPayment *)

\* Timeouts run in steps of 10 ms up to 10 * MaxTimeoutSteps.
MaxTimeoutSteps == 3
Timeouts == { 10 * k : k \in 0..MaxTimeoutSteps }
Intervals == { 10, 15 }

\* Milliseconds a verifyPayment call may take.
PollDurations == { 0, 5 }

\* What the gateway may do on a poll: answer, or fail to.
PollAnswers ==
    { VerifyData(Str(<<"0">>), Undefined, st, Undefined) :
        st \in { Undefined, Number(0), Number(2), Number(6) } } \cup
    { VerifyData(Str(<<"5">>), Str(<<"gateway message">>), Undefined,
                 Undefined) }
PollFailures ==
    { AxiosError("ECONNABORTED", FALSE, NoData, TRUE),
      AxiosError("ENOTFOUND", FALSE, NoData, TRUE) }

\* this.verifyPayment(paymentId) for each of them.
PollOutcomes(paymentId) ==
    { verifyPaymentResult(verifyResponse(data), paymentId) :
        data \in PollAnswers } \cup
    { verifyPaymentResult(Thrown(handleError(e, "verifyPayment")), paymentId) :
        e \in PollFailures }

InitWait ==
    /\ secretKey = SharedSecret
    /\ WaitIdle
    /\ PayIdle
    /\ ApiIdle
    /\ SigIdle
    /\ CbIdle
    /\ FnIdle
    /\ ConcIdle
    /\ RetryIdle

\* const startTime = Date.now()
WaitForPayment ==
    /\ wpPc = "idle"
    /\ \E timeoutMs \in Timeouts, intervalMs \in Intervals :
          wpCall' = [startTime |-> wpNow, timeoutMs |-> timeoutMs,
                     intervalMs |-> intervalMs]
    /\ wpPc' = "check"
    /\ UNCHANGED <<wpNow, wpPolls, wpSleeps, wpOutcome>>
    /\ UNCHANGED <<sigVars, cbVars, apiVars, payVars, fnVars, concVars,
                   retryVars>>

\* The loop condition, and the throw after the loop.
WaitCheck ==
    /\ wpPc = "check"
    /\ IF wpNow - wpCall.startTime < wpCall.timeoutMs
       THEN /\ wpPc' = "poll"
            /\ UNCHANGED wpOutcome
       ELSE /\ wpOutcome' =
                  PayThrown(PlainError(<<"Payment verification timeout">>))
            /\ wpPc' = "done"
    /\ UNCHANGED <<wpNow, wpCall, wpPolls, wpSleeps>>
    /\ UNCHANGED <<sigVars, cbVars, apiVars, payVars, fnVars, concVars,
                   retryVars>>

\* await this.verifyPayment(paymentId), and the test of its status.
WaitPoll ==
    /\ wpPc = "poll"
    /\ \E verification \in PollOutcomes(Str(<<"X">>)), d \in PollDurations :
          /\ wpPolls' = Append(wpPolls, verification)
          /\ wpNow' = wpNow + d
          /\ IF afterPoll(verification) = "sleep"
             THEN /\ wpPc' = "sleep"
                  /\ UNCHANGED wpOutcome
             ELSE /\ wpPc' = "done"
                  /\ wpOutcome' = verification
    /\ UNCHANGED <<wpCall, wpSleeps>>
    /\ UNCHANGED <<sigVars, cbVars, apiVars, payVars, fnVars, concVars,
                   retryVars>>

\* await new Promise((resolve) => setTimeout(resolve, intervalMs))
WaitSleep ==
    /\ wpPc = "sleep"
    /\ wpSleeps' = wpSleeps + 1
    /\ wpNow' = wpNow + wpCall.intervalMs
    /\ wpPc' = "check"
    /\ UNCHANGED <<wpCall, wpPolls, wpOutcome>>
    /\ UNCHANGED <<sigVars, cbVars, apiVars, payVars, fnVars, concVars,
                   retryVars>>

\* The caller resumes; time is counted from the next call on.
WaitReturn ==
    /\ wpPc = "done"
    /\ wpPc' = "idle"
    /\ wpNow' = 0
    /\ wpCall' = NoWaitCall
    /\ wpPolls' = <<>>
    /\ wpSleeps' = 0
    /\ wpOutcome' = NoPayOutcome
    /\ UNCHANGED <<sigVars, cbVars, apiVars, payVars, fnVars, concVars,
                   retryVars>>

NextWait ==
    \/ WaitForPayment
    \/ WaitCheck
    \/ WaitPoll
    \/ WaitSleep
    \/ WaitReturn

SpecWait == InitWait /\ [][NextWait]_vars

-----------------------------------------------------------------------------
(* The status mappers and generateOrderId on their own *)

\* Status strings a callback may carry: the keys of STATUS_MAPPING, the
\* internal status names, names every object inherits, and other strings.
StatusStrings ==
    { Str(k) : k \in DOMAIN STATUS_MAPPING } \cup
    { s \in PaymentStatus : TRUE } \cup
    { Str(k) : k \in PrototypeKeys } \cup
    { Str(<<>>), Str(<<"7">>), Str(<<"UNKNOWN">>), Str(<<"deposited">>) }

\* Prefixes have up to MaxPrefix characters.
MaxPrefix == 4
PrefixChars == { "A", "_" }
Prefixes ==
    UNION { [1..n -> PrefixChars] : n \in 0..MaxPrefix } \cup
    { <<"O", "R", "D">>, <<"C", "U", "S", "T", "O", "M">> }

InitFn ==
    /\ secretKey = SharedSecret
    /\ FnIdle
    /\ SigIdle
    /\ CbIdle
    /\ ApiIdle
    /\ PayIdle
    /\ WaitIdle
    /\ ConcIdle
    /\ RetryIdle

MapStatusCall ==
    /\ fnPc = "idle"
    /\ \E satimStatus \in StatusStrings :
          /\ fnCall' = [NoFnCall EXCEPT !.fn = "mapStatus",
                                        !.arg = satimStatus]
          /\ fnResult' = mapStatus(satimStatus)
    /\ fnPc' = "done"
    /\ UNCHANGED <<sigVars, cbVars, apiVars, payVars, waitVars, concVars,
                   retryVars>>

MapOrderStatusCall ==
    /\ fnPc = "idle"
    /\ \E orderStatus \in { Undefined } \cup
                           { Number(n) : n \in (0 - MaxStatus)..MaxStatus } :
          /\ fnCall' = [NoFnCall EXCEPT
                           !.fn = "mapOrderStatusToPaymentStatus",
                           !.arg = orderStatus]
          /\ fnResult' = mapOrderStatusToPaymentStatus(orderStatus)
    /\ fnPc' = "done"
    /\ UNCHANGED <<sigVars, cbVars, apiVars, payVars, waitVars, concVars,
                   retryVars>>

GenerateOrderIdCall ==
    /\ fnPc = "idle"
    /\ \E prefix \in Prefixes, now \in Timestamps, random \in Randoms :
          /\ fnCall' = [NoFnCall EXCEPT !.fn = "generateOrderId",
                                        !.prefix = prefix,
                                        !.timestamp = now.low,
                                        !.random = random]
          /\ fnResult' = generateOrderId(prefix, now, random)
    /\ fnPc' = "done"
    /\ UNCHANGED <<sigVars, cbVars, apiVars, payVars, waitVars, concVars,
                   retryVars>>

FnReturn ==
    /\ fnPc = "done"
    /\ fnPc' = "idle"
    /\ fnCall' = NoFnCall
    /\ fnResult' = Undefined
    /\ UNCHANGED <<sigVars, cbVars, apiVars, payVars, waitVars, concVars,
                   retryVars>>

NextFn ==
    \/ MapStatusCall
    \/ MapOrderStatusCall
    \/ GenerateOrderIdCall
    \/ FnReturn

SpecFn == InitFn /\ [][NextFn]_vars

-----------------------------------------------------------------------------
(* retry *)

\* Largest maxRetries a caller passes.
MaxRetries == 3

RetryCounts == (-1)..MaxRetries
Delays == { 0, 250, 1000 }

\* What fn resolves with, and what it rejects with.
FnValues == { "v1", "v2" }
FnErrors == { "e1", "e2" }

RECURSIVE Pow2(_)
Pow2(n) == IF n <= 0 THEN 1 ELSE 2 * Pow2(n - 1)

\* delayMs * Math.pow(2, attempt - 1)
backoff(delayMs, attempt) == delayMs * Pow2(attempt - 1)

\* lastError before any assignment
Unassigned == [kind |-> "throw", v |-> "undefined"]

\* lastError at the end of the loop
lastError(attempts) ==
    IF attempts = <<>> THEN Unassigned ELSE attempts[Len(attempts)]

InitRetry ==
    /\ secretKey = SharedSecret
    /\ CbIdle
    /\ SigIdle
    /\ ApiIdle
    /\ PayIdle
    /\ WaitIdle
    /\ FnIdle
    /\ ConcIdle
    /\ RetryIdle

RetryUnchanged ==
    UNCHANGED <<sigVars, cbVars, apiVars, payVars, waitVars, fnVars, concVars>>

\* retry from its first statement to the first call of fn, or to the throw
\* after a loop that never ran.
RetryCall ==
    /\ rtPc = "idle"
    /\ \E maxRetries \in RetryCounts, delayMs \in Delays :
          /\ rtCall' = [maxRetries |-> maxRetries, delayMs |-> delayMs]
          /\ IF 1 <= maxRetries
             THEN /\ rtPc' = "calling"
                  /\ rtOutcome' = rtOutcome
             ELSE /\ rtPc' = "done"
                  /\ rtOutcome' = lastError(<<>>)
    /\ UNCHANGED <<rtAttempts, rtSleeps>>
    /\ RetryUnchanged

\* fn resolves: retry returns its value.
RetryFnReturns ==
    /\ rtPc = "calling"
    /\ \E v \in FnValues :
          /\ rtAttempts' = Append(rtAttempts, [kind |-> "return", v |-> v])
          /\ rtOutcome' = [kind |-> "return", v |-> v]
    /\ rtPc' = "done"
    /\ UNCHANGED <<rtCall, rtSleeps>>
    /\ RetryUnchanged

\* fn rejects: retry sleeps if another attempt follows, and otherwise leaves
\* the loop and throws lastError.
RetryFnThrows ==
    /\ rtPc = "calling"
    /\ \E e \in FnErrors :
          LET attempt == Len(rtAttempts) + 1
              attempts == Append(rtAttempts, [kind |-> "throw", v |-> e])
          IN  /\ rtAttempts' = attempts
              /\ IF attempt < rtCall.maxRetries
                 THEN /\ rtSleeps' =
                           Append(rtSleeps, backoff(rtCall.delayMs, attempt))
                      /\ rtPc' = "sleeping"
                      /\ rtOutcome' = rtOutcome
                 ELSE /\ rtSleeps' = rtSleeps
                      /\ rtPc' = "done"
                      /\ rtOutcome' = lastError(attempts)
    /\ UNCHANGED rtCall
    /\ RetryUnchanged

\* The sleep ends: the next attempt calls fn.
RetryWakes ==
    /\ rtPc = "sleeping"
    /\ rtPc' = "calling"
    /\ UNCHANGED <<rtCall, rtAttempts, rtSleeps, rtOutcome>>
    /\ RetryUnchanged

\* retry's caller resumes.
RetryReturn ==
    /\ rtPc = "done"
    /\ rtPc' = "idle"
    /\ rtCall' = NoRetryCall
    /\ rtAttempts' = <<>>
    /\ rtSleeps' = <<>>
    /\ rtOutcome' = NoAttempt
    /\ RetryUnchanged

NextRetry ==
    \/ RetryCall
    \/ RetryFnReturns
    \/ RetryFnThrows
    \/ RetryWakes
    \/ RetryReturn

SpecRetry == InitRetry /\ [][NextRetry]_vars

-----------------------------------------------------------------------------
(* Properties of the callback processor *)

Range(seq) == { seq[i] : i \in 1..Len(seq) }

\* A required field is absent or empty.
MissingRequired(req) ==
    \/ req.body = "undefined"
    \/ \E i \in 1..Len(requiredFields) :
          ~Truthy(Get(req.fields, requiredFields[i]))

\* Neither a body signature nor the signature header.
CarriesNoSignature(req) ==
    ~SigTruthy(req.signature) /\ ~SigTruthy(req.header)

\* The signature presented is not the upper-case HMAC, under the handler's
\* key, of the payload without its signature field.
SignatureMismatch(req) ==
    SignatureOf(req) # Mac(secretKey, DataString(req.fields), TRUE)

Handled == cbPc \in {"awaiting", "done"}

ExternalStatus == Get(cbReq.fields, <<"status">>)

\* C1: a callback with no signature, or with a signature that does not
\* match the recomputed HMAC, reaches no outcome handler and is answered
\* with HTTP 400 and success=false.
C1_BadSignatureRejected ==
    (Handled /\ (CarriesNoSignature(cbReq) \/ SignatureMismatch(cbReq))) =>
        /\ cbCalls = <<>>
        /\ cbPc = "done"
        /\ Len(cbRes) = 1
        /\ cbRes[1].status = 400
        /\ cbRes[1].success = FALSE

C1_Witness ==
    /\ cbPc = "done"
    /\ ~MissingRequired(cbReq)
    /\ SigTruthy(SignatureOf(cbReq))
    /\ SignatureOf(cbReq).len = HexLen
    /\ SignatureMismatch(cbReq)
    /\ onPaymentSuccess /\ onPaymentFailed /\ onPaymentCancelled
    /\ cbCalls = <<>>
    /\ Len(cbRes) = 1
    /\ cbRes[1].status = 400

\* C2: a verified callback reaches the registered handler of the internal
\* status its external status maps to, and with status "6" no handler but
\* the cancellation handler.
C2_MatchingHandlerInvoked ==
    (Handled /\ cbVerified) =>
        LET m == mapStatus(ExternalStatus)
            called == Range(cbCalls)
        IN  /\ (m = SUCCESS /\ onPaymentSuccess) => "success" \in called
            /\ (m = FAILED /\ onPaymentFailed) => "failed" \in called
            /\ (m = CANCELLED /\ onPaymentCancelled) => "cancelled" \in called
            /\ JsString(ExternalStatus) = <<"6">> =>
                   called \subseteq {"cancelled"}

\* C3: a verified callback whose external status maps to none of SUCCESS,
\* FAILED, CANCELLED reaches no outcome handler.
C3_OtherStatusIgnored ==
    (Handled /\ cbVerified
        /\ mapStatus(ExternalStatus) \notin {SUCCESS, FAILED, CANCELLED}) =>
        cbCalls = <<>>

\* C4: handle sends exactly one acknowledgement and resolves: HTTP 200 with
\* success=true when validation, verification and dispatch raise nothing,
\* and otherwise HTTP 400 with success=false, the message of the error
\* ('Unknown error' when the thrown value is not an Error) and the
\* payload's paymentId, or 'unknown' when it is absent or empty.
C4_OneAcknowledgement ==
    /\ Len(cbRes) <= 1
    /\ cbPromise # "rejected"
    /\ cbPc \in {"idle", "received", "awaiting"} => cbRes = <<>>
    /\ cbPc = "done" =>
          /\ Len(cbRes) = 1
          /\ cbPromise = "resolved"
          /\ LET failed == \/ MissingRequired(cbReq)
                           \/ CarriesNoSignature(cbReq)
                           \/ SignatureMismatch(cbReq)
                           \/ cbHandlerErr # NoError
                 raised == IF cbHandlerErr # NoError THEN cbHandlerErr
                           ELSE handleSteps(secretKey, cbReq).error
                 pid == Get(cbReq.fields, <<"paymentId">>)
             IN  IF failed
                 THEN /\ cbRes[1].status = 400
                      /\ cbRes[1].success = FALSE
                      /\ raised # NoError
                      /\ cbRes[1].message =
                            IF raised.name = "NotAnError"
                            THEN <<"Unknown error">> ELSE raised.message
                      /\ cbRes[1].paymentId =
                            IF Truthy(pid) THEN pid ELSE Str(<<"unknown">>)
                 ELSE /\ cbRes[1].status = 200
                      /\ cbRes[1].success = TRUE

C4_Witness ==
    /\ cbPc = "done"
    /\ cbVerified
    /\ cbHandlerErr # NoError
    /\ Len(cbCalls) = 1
    /\ Len(cbRes) = 1
    /\ cbRes[1].status = 400
    /\ cbRes[1].paymentId = Str(<<"P1">>)

\* C22: the error with which an invocation of handle ends carries no
\* callback signature in its details.
C22_NoSignatureInDetails ==
    cbPc = "done" =>
        handleSteps(secretKey, cbReq).error.details.received = NoSignature

\* The body is an object that has every required field.
AllFieldsPresent(req) ==
    /\ req.body = "object"
    /\ \A i \in 1..Len(requiredFields) : HasKey(req.fields, requiredFields[i])

ValidationFailure(error) ==
    /\ error.name = "Error"
    /\ SubSeq(error.message, 1, 1) = <<"Missing required field: ">>

\* C26: validation of the fields precedes verification of the signature: a
\* payload without one of paymentId, orderId, status, amount, currency is
\* answered with a generic validation failure, its signature unverified and
\* no handler called; a payload that has all five passes validation.
C26_ValidationBeforeSignature ==
    cbPc = "done" =>
        LET r == handleSteps(secretKey, cbReq)
        IN  /\ (cbReq.body = "object" /\ ~AllFieldsPresent(cbReq)) =>
                  /\ ValidationFailure(r.error)
                  /\ ~cbVerified
                  /\ cbCalls = <<>>
                  /\ cbRes[1].status = 400
            /\ AllFieldsPresent(cbReq) => ~ValidationFailure(r.error)

\* C27: within one invocation of handle, the success, failure and
\* cancellation handlers are called at most once in total.
C27_AtMostOneHandlerCall == Len(cbCalls) <= 1

\* A verified callback reached its handler, all three being registered.
C27_Witness ==
    /\ cbPc = "done"
    /\ cbVerified
    /\ onPaymentSuccess /\ onPaymentFailed /\ onPaymentCancelled
    /\ Len(cbCalls) = 1
    /\ Len(cbRes) = 1
    /\ cbRes[1].status = 200

\* The signature presented was not computed with the shared gateway secret.
MadeWithoutSecret(req) == SignatureOf(req).key # SharedSecret

\* C29: the handler SatimClient constructs verifies signatures with the
\* shared gateway secret: a callback whose signature was made without that
\* secret is never acknowledged with success and reaches no handler.
C29_ForgedCallbackRejected ==
    (secretKey = "" /\ Handled /\ MadeWithoutSecret(cbReq)) =>
        /\ cbCalls = <<>>
        /\ cbPc = "done"
        /\ \A i \in 1..Len(cbRes) : cbRes[i].status = 400

-----------------------------------------------------------------------------
(* Properties of the gateway client *)

\* C8: registerPayment rejects an amount below 5000 centimes or not a
\* multiple of 100 without issuing an HTTP request, and issues the
\* register.do request for every other amount.
C8_RegisterAmountValidation ==
    apiCall.op = "registerPayment" =>
        IF apiCall.amount < 5000 \/ apiCall.amount % 100 # 0
        THEN /\ apiHttp = <<>>
             /\ apiPc = "done"
             /\ apiOutcome.kind = "throw"
        ELSE /\ Len(apiHttp) = 1
             /\ apiHttp[1].endpoint = "/register.do"

C8_Witness ==
    /\ apiCall.op = "registerPayment"
    /\ apiCall.amount = 5050
    /\ apiPc = "done"
    /\ apiOutcome.kind = "throw"
    /\ apiHttp = <<>>

\* C9: refundPayment rejects an amount below 100 centimes or not a multiple
\* of 100 without issuing an HTTP request, and the amount parameter of the
\* request it issues reads as the amount passed in.
C9_RefundAmountUnscaled ==
    apiCall.op = "refundPayment" =>
        IF apiCall.amount < 100 \/ apiCall.amount % 100 # 0
        THEN /\ apiHttp = <<>>
             /\ apiPc = "done"
             /\ apiOutcome.kind = "throw"
        ELSE /\ Len(apiHttp) = 1
             /\ apiHttp[1].endpoint = "/refund.do"
             /\ ParseDecimal(apiHttp[1].amount) = apiCall.amount

C9_Witness ==
    /\ apiCall.op = "refundPayment"
    /\ apiCall.amount = 2500
    /\ apiPc = "http"
    /\ apiHttp = << [method |-> "GET", endpoint |-> "/refund.do",
                     amount |-> <<"2", "5", "0", "0">>] >>

\* C10: registerPayment returns only the response whose errorCode reads "0"
\* and whose orderId and formUrl are both present; every other response
\* ends the operation with an error.
C10_RegisterReturnsOnlyComplete ==
    (apiCall.op = "registerPayment" /\ apiPc = "done") =>
        /\ apiOutcome.kind \in {"return", "throw"}
        /\ apiOutcome.kind = "return" =>
              /\ apiResp.got
              /\ apiOutcome.data = apiResp.data
        /\ apiResp.got =>
              (apiOutcome.kind = "return" <=>
                  /\ apiResp.data.has
                  /\ JsString(apiResp.data.errorCode) = <<"0">>
                  /\ Truthy(apiResp.data.orderId)
                  /\ Truthy(apiResp.data.formUrl))

C10_Witness ==
    /\ apiCall.op = "registerPayment"
    /\ apiPc = "done"
    /\ apiResp.got
    /\ apiResp.data.errorCode = Str(<<"0">>)
    /\ Truthy(apiResp.data.orderId)
    /\ ~Truthy(apiResp.data.formUrl)
    /\ apiOutcome.kind = "throw"
    /\ apiOutcome.error.name = "SatimError"

\* The error code and message a gateway response carries, under either
\* spelling of the field.
GatewayCode(data) ==
    IF data.errorCode # Undefined THEN data.errorCode ELSE data.ErrorCode
GatewayMessage(data) ==
    IF data.errorMessage # Undefined THEN data.errorMessage
    ELSE data.ErrorMessage

\* C11: for registerPayment, verifyPayment and refundPayment alike, a
\* failure of the HTTP call always ends the operation with a thrown error
\* of exactly one class: a timeout with no response gives a TimeoutError, a
\* failure carrying a response gives a SatimError with the gateway's code
\* and message, a request without a response gives a NetworkError, and
\* anything else gives a SatimError with code SYSTEM_ERROR.
C11_TransportClassified ==
    (apiPc = "done" /\ apiFailure # NoFailure) =>
        /\ apiCall.op \in {"registerPayment", "verifyPayment", "refundPayment"}
        /\ apiOutcome.kind = "throw"
        /\ LET e == apiFailure
               x == apiOutcome.error
           IN  IF e.code = "ECONNABORTED" /\ ~e.hasResponse
               THEN x.name = "TimeoutError" /\ x.code = TIMEOUT
               ELSE IF e.hasResponse
               THEN /\ x.name = "SatimError"
                    /\ GatewayCode(e.data) # Undefined =>
                          x.code = GatewayCode(e.data)
                    /\ GatewayMessage(e.data) # Undefined =>
                          x.message = JsString(GatewayMessage(e.data))
               ELSE IF e.hasRequest
               THEN x.name = "NetworkError" /\ x.code = NETWORK_ERROR
               ELSE x.name = "SatimError" /\ x.code = SYSTEM_ERROR

C11_Witness ==
    /\ apiPc = "done"
    /\ apiCall.op = "verifyPayment"
    /\ apiFailure.hasResponse
    /\ apiFailure.data.ErrorCode = Str(<<"6">>)
    /\ apiOutcome.kind = "throw"
    /\ apiOutcome.error.name = "SatimError"
    /\ apiOutcome.error.code = Str(<<"6">>)
    /\ apiOutcome.error.message = <<"gateway message">>

\* A logged object mentions a text when the text occurs in one of its
\* values, at any depth.
RECURSIVE Mentions(_, _)
Mentions(meta, text) ==
    \E i \in 1..Len(meta) :
        IF meta[i][2].t = "object" THEN Mentions(meta[i][2].s, text)
        ELSE text \in Range(meta[i][2].s)

\* C23: no record that registerPayment, verifyPayment or refundPayment
\* passes to the logger contains the merchant password in clear, as a field
\* value or inside another string.
C23_PasswordNeverLogged ==
    \A i \in 1..Len(apiLog) : ~Mentions(apiLog[i].meta, Password)

-----------------------------------------------------------------------------
(* Properties of the payment orchestrator *)

\* C15: a PaymentVerification returned by PaymentHandler.verifyPayment has
\* success = true only if the gateway answered this call with ErrorCode "0",
\* and then it has it whatever status the OrderStatus maps to.
C15_SuccessFollowsErrorCode ==
    (phPc = "done" /\ phCall.op = "verifyPayment"
                   /\ phOutcome.kind = "return") =>
        /\ apiResp.got
        /\ phOutcome.value.success => apiResp.data.ErrorCode = Str(<<"0">>)
        /\ apiResp.data.ErrorCode = Str(<<"0">>) => phOutcome.value.success
        /\ phOutcome.value.status =
              mapOrderStatusToPaymentStatus(apiResp.data.OrderStatus)

C15_Witness ==
    /\ phPc = "done"
    /\ phCall.op = "verifyPayment"
    /\ apiResp.data.ErrorCode = Str(<<"0">>)
    /\ apiResp.data.OrderStatus = Number(6)
    /\ phOutcome.kind = "return"
    /\ phOutcome.value.status = FAILED
    /\ phOutcome.value.success

\* C16: whenever SatimAPI.refundPayment returns to PaymentHandler.refundPayment
\* (the response's errorCode renders as "0"), the RefundResponse has status
\* REFUNDED and success = true; FAILED with success = false results only
\* when the gateway did not report success.
C16_RefundedOnGatewaySuccess ==
    (phPc = "done" /\ phCall.op = "refundPayment") =>
        /\ apiOutcome.kind = "return" =>
              /\ JsString(apiResp.data.errorCode) = <<"0">>
              /\ phOutcome.kind = "return"
              /\ phOutcome.value.status = REFUNDED
              /\ phOutcome.value.success
        /\ (phOutcome.kind = "return" /\ phOutcome.value.status = FAILED) =>
              /\ ~phOutcome.value.success
              /\ JsString(apiResp.data.errorCode) # <<"0">>

\* C19: createPayment returns only after registerPayment returned, and what
\* it returns has status PENDING, success = true, the gateway's orderId as
\* paymentId, the gateway's formUrl as paymentUrl and the order number that
\* was sent as orderId; an order without amount fails before any call of
\* the gateway client.
C19_CreatePaymentResponse ==
    (phPc = "done" /\ phCall.op = "createPayment") =>
        /\ phOutcome.kind = "return" =>
              /\ apiCall.op = "registerPayment"
              /\ apiOutcome.kind = "return"
              /\ phOutcome.value.status = PENDING
              /\ phOutcome.value.success
              /\ phOutcome.value.paymentId = apiResp.data.orderId
              /\ phOutcome.value.paymentUrl = apiResp.data.formUrl
              /\ Len(apiHttp) = 1
              /\ phOutcome.value.orderId = apiHttp[1].orderNumber
        /\ amountMissing(phCall.order) =>
              /\ phOutcome.kind = "throw"
              /\ phOutcome.error.name = "Error"
              /\ apiCall = NoCall
              /\ apiHttp = <<>>

C19_Witness ==
    /\ phPc = "done"
    /\ phCall.op = "createPayment"
    /\ phCall.order = Order(Undefined, TRUE, 5000)
    /\ apiResp.data.errorCode = Str(<<"0">>)
    /\ apiResp.data.orderId = Str(<<"X">>)
    /\ phOutcome.kind = "return"
    /\ phOutcome.value.status = PENDING
    /\ phOutcome.value.paymentId = Str(<<"X">>)
    /\ phOutcome.value.orderId =
          Str(<<"O", "R", "D", "0", "0", "4", "2", "0", "0", "5">>)

\* C21: the orderNumber of every register.do request createPayment causes,
\* supplied by the caller or generated, has at most 10 characters.
C21_OrderNumberAtMostTen ==
    \A i \in 1..Len(apiHttp) :
        (phCall.op = "createPayment" /\ apiHttp[i].endpoint = "/register.do")
            => Len(JsString(apiHttp[i].orderNumber)) <= 10

\* C25: the error with which registerPayment rejects an amount below the
\* minimum or not a multiple of 100 is a ValidationError, and so is the
\* error with which createPayment rejects an order without amount.
C25_RejectionIsValidationError ==
    (/\ phPc = "done"
     /\ phCall.op = "createPayment"
     /\ \/ amountMissing(phCall.order)
        \/ registerValidate(phCall.order.amount) # NoApiError)
        => /\ phOutcome.kind = "throw"
           /\ phOutcome.error.name = "ValidationError"

-----------------------------------------------------------------------------
(* Properties of waitForPayment *)

ObservedPending(verification) ==
    verification.kind = "return" /\ verification.value.status = PENDING
ObservedFinal(verification) ==
    verification.kind = "return" /\ verification.value.status # PENDING

\* C12: the first poll that observes a status other than PENDING ends
\* waitForPayment at once: it is the last poll, no sleep follows it, and its
\* verification is what waitForPayment returns; waitForPayment returns
\* nothing else.
C12_FirstFinalPollReturned ==
    /\ \A i \in 1..Len(wpPolls) :
          ObservedFinal(wpPolls[i]) =>
              /\ i = Len(wpPolls)
              /\ wpPc = "done"
              /\ wpOutcome = wpPolls[i]
              /\ wpSleeps = i - 1
    /\ (wpPc = "done" /\ wpOutcome.kind = "return") =>
          /\ Len(wpPolls) >= 1
          /\ ObservedFinal(wpPolls[Len(wpPolls)])
          /\ \A i \in 1..(Len(wpPolls) - 1) : ObservedPending(wpPolls[i])

C12_Witness ==
    /\ wpPc = "done"
    /\ Len(wpPolls) = 2
    /\ ObservedPending(wpPolls[1])
    /\ wpPolls[2].kind = "return"
    /\ wpPolls[2].value.status = FAILED
    /\ wpOutcome = wpPolls[2]
    /\ wpSleeps = 1

\* C13: when every poll observed PENDING, waitForPayment ends with a thrown
\* error of the TimeoutError kind, and not with a PENDING verification.
C13_TimeoutErrorKind ==
    (wpPc = "done" /\ \A i \in 1..Len(wpPolls) : ObservedPending(wpPolls[i])) =>
        /\ wpOutcome.kind = "throw"
        /\ wpOutcome.error.name = "TimeoutError"

\* C14: a poll whose verifyPayment call fails ends waitForPayment at once
\* with that same failure: it is the last poll, no sleep follows it, and
\* what waitForPayment throws is the error the poll threw.
C14_PollFailurePropagates ==
    \A i \in 1..Len(wpPolls) :
        wpPolls[i].kind = "throw" =>
            /\ i = Len(wpPolls)
            /\ wpPc = "done"
            /\ wpOutcome.kind = "throw"
            /\ wpOutcome.error = wpPolls[i].error
            /\ wpSleeps = i - 1

C14_Witness ==
    /\ wpPc = "done"
    /\ Len(wpPolls) = 2
    /\ ObservedPending(wpPolls[1])
    /\ wpPolls[2].kind = "throw"
    /\ wpPolls[2].error.name = "NetworkError"
    /\ wpOutcome.kind = "throw"
    /\ wpOutcome.error.name = "NetworkError"
    /\ wpSleeps = 1

-----------------------------------------------------------------------------
(* Properties of the status mappers and generateOrderId *)

\* The reference table of numeric order statuses.
OrderStatusTable(n) ==
    CASE n \in {1, 2, 11} -> SUCCESS
      [] n = 4            -> REFUNDED
      [] n \in {6, -1}    -> FAILED
      [] n = 3            -> CANCELLED
      [] OTHER            -> PENDING

\* C17: mapOrderStatusToPaymentStatus returns, for every number and for an
\* absent value, one of the seven internal statuses, the one the reference
\* table gives: 1, 2, 11 SUCCESS; 4 REFUNDED; 6, -1 FAILED; 3 CANCELLED;
\* 0, every other number and an absent value PENDING.
C17_OrderStatusTable ==
    (fnPc = "done" /\ fnCall.fn = "mapOrderStatusToPaymentStatus") =>
        /\ fnResult \in PaymentStatus
        /\ fnCall.arg = Undefined => fnResult = PENDING
        /\ \A n \in (0 - MaxStatus)..MaxStatus :
              fnCall.arg = Number(n) => fnResult = OrderStatusTable(n)

C17_Witness ==
    /\ fnPc = "done"
    /\ fnCall.fn = "mapOrderStatusToPaymentStatus"
    /\ fnCall.arg = Number(4)
    /\ fnResult = REFUNDED

\* C18: mapStatus returns, for every string, a member of PaymentStatus: the
\* table entry for a string listed in STATUS_MAPPING and FAILED for every
\* other string.
C18_MapStatusTotal ==
    (fnPc = "done" /\ fnCall.fn = "mapStatus") =>
        /\ fnResult \in PaymentStatus
        /\ IF JsString(fnCall.arg) \in DOMAIN STATUS_MAPPING
           THEN fnResult = STATUS_MAPPING[JsString(fnCall.arg)]
           ELSE fnResult = FAILED

HexCharacters == Range(Digits) \cup { "a", "b", "c", "d", "e", "f" }

\* C28: generateOrderId returns the whole prefix, an underscore, a run of
\* digits, an underscore and 8 lowercase hexadecimal characters.
C28_PrefixDigitsHex ==
    (fnPc = "done" /\ fnCall.fn = "generateOrderId") =>
        LET id == JsString(fnResult)
            k  == Len(fnCall.prefix)
            n  == Len(id)
        IN  /\ n >= k + 11
            /\ SubSeq(id, 1, k) = fnCall.prefix
            /\ id[k + 1] = "_"
            /\ \A i \in (k + 2)..(n - 9) : id[i] \in Range(Digits)
            /\ id[n - 8] = "_"
            /\ \A i \in (n - 7)..n : id[i] \in HexCharacters

-----------------------------------------------------------------------------
(* Properties of the signature engine *)

\* C5: a signature issued for a payload verifies for no payload that
\* differs from it in a key or a value, and the payload verifies under no
\* signature other than the one issued for it.
C5_MutationRejected ==
    sgPc = "verified" =>
        /\ (~SameMapping(sgVerPayload, sgPayload) /\ sgReceived = sgSignature)
               => ~sgIsValid
        /\ (SameMapping(sgVerPayload, sgPayload) /\ sgReceived # sgSignature)
               => ~sgIsValid

\* C6: the signature issued for a payload verifies for that payload under
\* the same secret key, and a second call on the payload issues the same
\* signature.
C6_RoundTrip ==
    /\ (sgPc = "verified" /\ SameMapping(sgVerPayload, sgPayload)
            /\ sgReceived = sgSignature) => sgIsValid
    /\ sgSignature2 # NoSignature => sgSignature2 = sgSignature

C6_Witness ==
    /\ sgPc = "verified"
    /\ sgPayload # <<>>
    /\ sgVerPayload = sgPayload
    /\ sgReceived = sgSignature
    /\ sgSignature2 = sgSignature
    /\ sgIsValid

\* C7: every payload with the same keys and the same value under each key
\* as the signed one, whatever its insertion order, gets the same signature.
C7_OrderIndependent ==
    sgPc = "signed" =>
        \A q \in SigPayloads :
            SameMapping(q, sgPayload) =>
                generateSignature(secretKey, q) = sgSignature

C7_Witness ==
    /\ sgPc = "signed"
    /\ Len(sgPayload) >= 2
    /\ ObjectKeys(sgPayload) # Sort(ObjectKeys(sgPayload))
    /\ \E q \in SigPayloads :
          /\ q # sgPayload
          /\ SameMapping(q, sgPayload)
          /\ generateSignature(secretKey, q) = sgSignature

-----------------------------------------------------------------------------
(* Properties of concurrent invocations of handle *)

DispatchesOf(i) == SelectSeq(ccDispatch, LAMBDA d : d.inv = i)

\* Whether req, handled alone, reaches a registered outcome handler.
DispatchedAlone(req) ==
    LET r == handleSteps(secretKey, req)
    IN  r.error = NoError /\ Registered(r.slot)

\* The acknowledgement of req handled alone, its handler throwing herr.
AcknowledgedAlone(req, herr) ==
    LET r == handleSteps(secretKey, req)
    IN  IF r.error # NoError THEN ErrorResponse(r.error, req)
        ELSE IF DispatchedAlone(req) /\ herr # NoError
             THEN ErrorResponse(herr, req)
             ELSE SuccessResponse(req)

\* C24: under every interleaving of concurrent invocations of handle, with
\* the handlers fixed, each request is acknowledged and dispatched exactly as
\* it would be alone; and nothing is deduplicated: a valid notification
\* delivered to several invocations is dispatched once by each of them.
C24_StatelessNoDeduplication ==
    /\ \A i \in 1..MaxInvocations :
          ccInv[i].pc = "done" =>
              /\ ccInv[i].res =
                     <<AcknowledgedAlone(ccInv[i].req, ccInv[i].herr)>>
              /\ DispatchesOf(i) =
                     IF DispatchedAlone(ccInv[i].req)
                     THEN <<Dispatch(i,
                              handleSteps(secretKey, ccInv[i].req).slot,
                              ccInv[i].req)>>
                     ELSE <<>>
    /\ \A i, j \in 1..MaxInvocations :
          (/\ i # j
           /\ ccInv[i].pc = "done"
           /\ ccInv[j].pc = "done"
           /\ ccInv[i].req = ccInv[j].req
           /\ DispatchedAlone(ccInv[i].req))
              => Len(DispatchesOf(i) \o DispatchesOf(j)) = 2

\* Two invocations for different requests overlapped: the second reached its
\* handler before the first, and both are answered.
C24_Witness ==
    /\ ccInv[1].pc = "done"
    /\ ccInv[2].pc = "done"
    /\ ccInv[1].req # ccInv[2].req
    /\ Len(ccDispatch) = 2
    /\ ccDispatch[1].inv = 2
    /\ ccDispatch[2].inv = 1
    /\ ccDispatch[1].paymentId # ccDispatch[2].paymentId

-----------------------------------------------------------------------------
(* Properties of retry *)

CallsAtMostMaxRetries ==
    Len(rtAttempts) <= IF rtCall.maxRetries < 0 THEN 0 ELSE rtCall.maxRetries

StopsAtFirstSuccess ==
    \A k \in 1..Len(rtAttempts) :
        rtAttempts[k].kind = "return" =>
            /\ k = Len(rtAttempts)
            /\ rtPc = "done"
            /\ rtOutcome = rtAttempts[k]

\* A sleep of delayMs * 2^(k-1) after failed attempt k, when and only when
\* another attempt follows.
SleepsBetweenAttempts ==
    /\ \A k \in 1..Len(rtSleeps) :
          /\ rtSleeps[k] = rtCall.delayMs * Pow2(k - 1)
          /\ k <= Len(rtAttempts)
          /\ rtAttempts[k].kind = "throw"
          /\ k < rtCall.maxRetries
    /\ rtPc = "done" =>
          Len(rtSleeps) = IF rtAttempts = <<>> THEN 0 ELSE Len(rtAttempts) - 1

ThrowsLastError ==
    (rtPc = "done" /\ rtOutcome.kind = "throw") =>
        /\ Len(rtAttempts) >= rtCall.maxRetries
        /\ rtAttempts # <<>> => rtOutcome = rtAttempts[Len(rtAttempts)]

OutcomeIsOfFn ==
    rtPc = "done" => rtOutcome \in Range(rtAttempts)

\* C30: for every integer maxRetries, retry calls fn at most maxRetries
\* times, stops at the first success and returns its value, sleeps
\* delayMs * 2^(k-1) after failed attempt k only when another attempt
\* follows, otherwise throws the error of the last attempt; its outcome is
\* always a value fn returned or an error fn threw.
C30_RetryContract ==
    /\ CallsAtMostMaxRetries
    /\ StopsAtFirstSuccess
    /\ SleepsBetweenAttempts
    /\ ThrowsLastError
    /\ OutcomeIsOfFn

=============================================================================
